---- MODULE Spec2Model ----
(* Match-lifecycle coordinator of draftchess: one session (game row), its two   *)
(* participants, the request handlers of the web process, the three BullMQ      *)
(* workers of the matchmaker process, the presence keys and the socket events.  *)
(* Every await of the source is a step boundary: a handler is a small process   *)
(* whose locals are kept between its steps.                                      *)
EXTENDS Integers, Sequences, FiniteSets, TLC

\* ---------------------------------------------------------------------------
\* Bounds of the model
\* ---------------------------------------------------------------------------
Files == 2          \* files of the board that are modelled (the game has 8)
MaxTicks == 8       \* the clock stops after this many ticks
SetupTicks == 3     \* ticks of the specifications of the setup phase
MaxInflight == 2    \* handlers and job executions that may overlap
MaxMoves == 2       \* accepted moves per run of a session
MaxLeaves == 1      \* leave-queue requests per run

\* ---------------------------------------------------------------------------
\* Program constants
\* ---------------------------------------------------------------------------
MOVE_TIME_LIMIT == 30000
TIMEBANK_BONUS_INTERVAL == 20
TIMEBANK_BONUS_AMOUNT == 60000
START_TIMEBANK == 60000
PREP_DELAY == 62000
DISCONNECT_GRACE_SECS == 30
AUX_POINTS == 6
DEFAULT_ELO == 1200
MsPerSec == 1000

NullInt == 0 - 1          \* a null Int / DateTime column
NullId == "null"          \* a null user id or string column

TickMs == MOVE_TIME_LIMIT \* granularity of the modelled clock
\* the first tick at or after PREP_DELAY, when the setup-deadline job runs
LiveAt == ((PREP_DELAY + TickMs - 1) \div TickMs) * TickMs

Users == {"u1", "u2"}
\* an authenticated user who is in no session
Stranger == "u3"
Sockets == Users \cup {Stranger}
\* a second connection of player u1 (another tab or device): every socket
\* carries the id of the user it authenticated as
Tab == "u1-tab"
Conns == Sockets \cup {Tab}
Owner(s) == IF s = Tab THEN "u1" ELSE s
Other(u) == IF u = "u1" THEN "u2" ELSE "u1"

\* ---------------------------------------------------------------------------
\* FEN helpers (fen-utils.ts).  A FEN is [rows, turn]: rows is the sequence of
\* the 8 rank strings (rows[1] = rank 8 ... rows[8] = rank 1), each a sequence
\* of characters; turn is the side-to-move field of the suffix.
\* ---------------------------------------------------------------------------
DigitChars == <<"1", "2", "3", "4", "5", "6", "7", "8">>
IsDigit(c) == \E i \in 1..Len(DigitChars) : DigitChars[i] = c
ParseInt(c) == CHOOSE i \in 1..Len(DigitChars) : DigitChars[i] = c
ToLower(c) ==
  CASE c = "P" -> "p" [] c = "N" -> "n" [] c = "B" -> "b"
    [] c = "R" -> "r" [] c = "Q" -> "q" [] c = "K" -> "k" [] OTHER -> c
ToUpper(c) ==
  CASE c = "p" -> "P" [] c = "n" -> "N" [] c = "b" -> "B"
    [] c = "r" -> "R" [] c = "q" -> "Q" [] c = "k" -> "K" [] OTHER -> c

Ones(n) == [i \in 1..n |-> "1"]

RECURSIVE expandFenRow(_)
expandFenRow(row) ==
  IF row = <<>> THEN <<>>
  ELSE IF IsDigit(Head(row))
       THEN Ones(ParseInt(Head(row))) \o expandFenRow(Tail(row))
       ELSE <<Head(row)>> \o expandFenRow(Tail(row))

\* the loop of compressFenRow with its two locals (result, count)
RECURSIVE compressLoop(_, _, _)
compressLoop(row, result, count) ==
  IF row = <<>>
  THEN IF count > 0 THEN Append(result, DigitChars[count]) ELSE result
  ELSE IF Head(row) = "1"
       THEN compressLoop(Tail(row), result, count + 1)
       ELSE compressLoop(Tail(row),
                         Append(IF count > 0 THEN Append(result, DigitChars[count])
                                ELSE result, Head(row)),
                         0)
compressFenRow(row) == compressLoop(row, <<>>, 0)

LowerRow(row) == [i \in 1..Len(row) |-> ToLower(row[i])]
EmptyRow == <<DigitChars[Files]>>

\* matchmaker/index.js combineFens: lowercases the black draft's rows as stored
combineFens(whiteFen, blackFen) ==
  [rows |-> << LowerRow(blackFen.rows[8]), LowerRow(blackFen.rows[7]),
               EmptyRow, EmptyRow, EmptyRow, EmptyRow,
               whiteFen.rows[7], whiteFen.rows[8] >>,
   turn |-> "w"]

\* fen-utils.ts buildCombinedDraftFen: expands, lowercases, compresses
buildCombinedDraftFen(draft1Fen, draft2Fen) ==
  [rows |-> << compressFenRow(LowerRow(expandFenRow(draft2Fen.rows[8]))),
               compressFenRow(LowerRow(expandFenRow(draft2Fen.rows[7]))),
               EmptyRow, EmptyRow, EmptyRow, EmptyRow,
               draft1Fen.rows[7], draft1Fen.rows[8] >>,
   turn |-> "w"]

\* one masked row: squares that were empty in the original are shown empty
MaskRow(cur, ori) ==
  compressFenRow([f \in 1..Files |-> IF ori[f] # "1" THEN cur[f] ELSE "1"])

maskOpponentAuxPlacements(currentFen, originalDraftFen, viewerIsWhite) ==
  LET opponentRowIndices == IF viewerIsWhite THEN {1, 2} ELSE {7, 8}
  IN [rows |-> [idx \in 1..8 |->
                  IF idx \in opponentRowIndices
                  THEN MaskRow(expandFenRow(currentFen.rows[idx]),
                               expandFenRow(originalDraftFen.rows[idx]))
                  ELSE currentFen.rows[idx]],
      turn |-> currentFen.turn]

\* a square is [file |-> 0..Files-1, rank |-> 1..8]
getPieceAt(fen, square) == expandFenRow(fen.rows[8 - square.rank + 1])[square.file + 1]

placePieceOnFen(fen, pieceChar, square) ==
  LET rankIndex == 8 - square.rank + 1
      row == expandFenRow(fen.rows[rankIndex])
      newRow == [row EXCEPT ![square.file + 1] = pieceChar]
  IN [fen EXCEPT !.rows[rankIndex] = compressFenRow(newRow)]

hasIllegalBattery(fen, isWhite) ==
  LET rows == [i \in 1..8 |-> expandFenRow(fen.rows[i])]
      backIdx == IF isWhite THEN 8 ELSE 1
      frontIdx == IF isWhite THEN 7 ELSE 2
      rookLike(c) == ToUpper(c) \in {"Q", "R"}
      bishopLike(c) == ToUpper(c) \in {"Q", "B"}
  IN \/ \E file \in 1..Files :
          rookLike(rows[backIdx][file]) /\ rookLike(rows[frontIdx][file])
     \/ \E file \in 1..(Files - 1) :
          \/ bishopLike(rows[backIdx][file]) /\ bishopLike(rows[frontIdx][file + 1])
          \/ bishopLike(rows[backIdx][file + 1]) /\ bishopLike(rows[frontIdx][file])

PIECE_VALUES == [P |-> 1, N |-> 3, B |-> 3, R |-> 5]

\* the drafts of the two players, as the draft editor stores them (white's
\* perspective, army on ranks 1 and 2): a king and a rook on the back rank
DraftFen(u) ==
  [rows |-> << EmptyRow, EmptyRow, EmptyRow, EmptyRow, EmptyRow, EmptyRow,
               EmptyRow,
               compressFenRow(<<"K", "R">> \o Ones(Files - 2)) >>,
   turn |-> "w"]


\* ---------------------------------------------------------------------------
\* Elo (fen-utils.ts calculateEloChange, matchmaker/index.js calculateEloChange)
\* ---------------------------------------------------------------------------
Million == 1000000
\* 1 / (1 + 10^(d/400)) in millionths, for the rating differences of the model
ExpectedPpm(d) ==
  CASE d = 0 - 400 -> 909091 [] d = 0 - 200 -> 759747
    [] d = 0 - 37 -> 553047 [] d = 0 - 27 -> 538778 [] d = 0 - 21 -> 530185
    [] d = 0 - 11 -> 515825 [] d = 0 - 5 -> 507195
    [] d = 0 -> 500000
    [] d = 5 -> 492805 [] d = 11 -> 484175 [] d = 21 -> 469815
    [] d = 27 -> 461222 [] d = 37 -> 446953
    [] d = 200 -> 240253 [] d = 400 -> 90909

\* RoundScaled with Math.floor in the place of Math.round
RoundScaledFloor(k, ppm) == (k * ppm) \div Million

\* Math.round(k * (actualPpm - expectedPpm) / 10^6): round half up
RoundScaled(k, ppm) == (2 * k * ppm + Million) \div (2 * Million)

KFactor(games) == IF games < 30 THEN 32 ELSE IF games < 100 THEN 24 ELSE 16

calculateEloChange(winnerElo, loserElo, winnerGames, isDraw) ==
  LET kFactor == KFactor(winnerGames)
      expectedWinner == ExpectedPpm(loserElo - winnerElo)
      expectedLoser == Million - expectedWinner
      actualWinner == IF isDraw THEN Million \div 2 ELSE Million
      actualLoser == IF isDraw THEN Million \div 2 ELSE 0
  IN [winnerChange |-> RoundScaled(kFactor, actualWinner - expectedWinner),
      loserChange |-> RoundScaled(kFactor, actualLoser - expectedLoser)]

Abs(x) == IF x < 0 THEN 0 - x ELSE x
Max(a, b) == IF a > b THEN a ELSE b

\* ---------------------------------------------------------------------------
\* State
\* ---------------------------------------------------------------------------
VARIABLES
  now,          \* wall clock, ms
  game,         \* the session row
  users,        \* the player rows
  prepJob,      \* delayed job prep-<id> of prep-queue
  timeoutJob,   \* delayed job timeout-<id> of timeout-queue
  presence,     \* presence:disconnected:<user>:<game> keys (expiry time)
  conn,         \* socket of each player: "off" or "on"
  mw,           \* matchWorker position
  run,          \* running handler invocations and job executions, with locals
  view,         \* last position delivered to each player
  notes,        \* last presence notification emitted to each player's room
  side,         \* a second session of the same two players
  lobby,        \* the queue of the matchmaker with a third player in it
  hist          \* history of the session (observations for the properties)

vars == << now, game, users, prepJob, timeoutJob, presence, conn, mw, run,
           view, notes, side, lobby, hist >>

NoGame ==
  [status |-> "none", player1Id |-> "u1", player2Id |-> "u2",
   whitePlayerId |-> NullId, fen |-> DraftFen("u1"),
   readyPlayer1 |-> FALSE, readyPlayer2 |-> FALSE,
   auxPointsPlayer1 |-> 0, auxPointsPlayer2 |-> 0,
   prepStartedAt |-> NullInt, lastMoveAt |-> NullInt, moveNumber |-> 0,
   player1Timebank |-> 0, player2Timebank |-> 0,
   player1EloBefore |-> NullInt, player2EloBefore |-> NullInt,
   winnerId |-> NullId, endReason |-> NullId,
   player1EloAfter |-> NullInt, player2EloAfter |-> NullInt,
   eloChange |-> NullInt]

\* the second session: the columns of its row that updateGameResult reads and
\* writes, and the position (pc) and locals of the matchWorker execution and
\* of the resign request that work on it
NoSide ==
  [status |-> "none", player1Id |-> "u1", player2Id |-> "u2",
   player1EloBefore |-> NullInt, player2EloBefore |-> NullInt,
   winnerId |-> NullId, endReason |-> NullId,
   player1EloAfter |-> NullInt, player2EloAfter |-> NullInt,
   eloChange |-> NullInt,
   pc |-> "idle", elo1 |-> NullInt, elo2 |-> NullInt,
   reqWinner |-> NullId, player1Games |-> 0, player2Games |-> 0,
   ch |-> [p1 |-> 0, p2 |-> 0]]

\* the queue of three players: their rows, the pending try-match jobs, the
\* position and locals of the matchWorker execution, the sessions it created
NoLobby ==
  [rows |-> [p \in {"c1", "c2", "c3", "c4"} |->
               [elo |-> DEFAULT_ELO, queueStatus |-> "offline",
                queuedAt |-> NullInt]],
   jobs |-> 0, runs |-> 0, leaves |-> 0, seeded |-> TRUE, pc |-> "idle",
   player1 |-> [id |-> NullId, elo |-> NullInt, queuedAt |-> NullInt],
   player2 |-> [id |-> NullId, elo |-> NullInt, queuedAt |-> NullInt],
   sessions |-> << >>]

NoJob == [pending |-> FALSE, scheduledAt |-> NullInt, dueAt |-> NullInt]
Idle == [pc |-> "idle"]
NoView == [kind |-> "none"]

\* handler invocations: one per route (or socket handler) and caller, one
\* forfeitGame per expired key, one execution of each worker, the recovery
\* loop of the matchmaker's main()
Kinds == {"ready", "place", "move", "resign", "join", "disc", "forfeit"}
Procs == (Kinds \X Users) \cup ({"join", "move"} \X {Stranger})
         \cup ({"join", "disc", "move"} \X {Tab})
         \cup {<<"prepW", "w">>, <<"timeoutW", "w">>, <<"boot", "w">>}
PrepW == <<"prepW", "w">>
TimeoutW == <<"timeoutW", "w">>
Boot == <<"boot", "w">>

IsPlayer1(u) == game.player1Id = u
IsWhite(u) == game.whitePlayerId = u
IsParticipantAnyone(u) == TRUE
IsParticipant(u) == game.player1Id = u \/ game.player2Id = u
\* draft1 is the white player's draft, draft2 the black player's (index.js:157)
Draft1Fen == DraftFen(game.whitePlayerId)
Draft2Fen == DraftFen(Other(game.whitePlayerId))

Busy == {p \in Procs : run[p].pc # "idle"}
CanStart == Cardinality(Busy) < MaxInflight

NoHist == [liveApplied |-> 0, finalizeWins |-> 0, fieldWrites |-> 0,
           placed |-> {}, lastFinalizer |-> NullId, expired |-> {},
           skipped |-> {}, lostReplies |-> {}, outcomes |-> {}, movesBefore |-> 0,
           crashed |-> FALSE, restarted |-> FALSE,
           rejected |-> << >>]

InitUsers ==
  [u \in Users |->
     [elo |-> IF u = "u1" THEN DEFAULT_ELO ELSE DEFAULT_ELO + 5,
      gamesPlayed |-> 0, wins |-> 0, losses |-> 0, draws |-> 0,
      queueStatus |-> "queued", queuedAt |-> 0]]

Init ==
  /\ now = 0
  /\ game = NoGame
  /\ users = InitUsers
  /\ prepJob = NoJob
  /\ timeoutJob = NoJob
  /\ presence = [u \in Users |-> NullInt]
  /\ conn = [u \in Conns |-> "off"]
  /\ mw = "idle"
  /\ run = [p \in Procs |-> Idle]
  /\ view = [u \in Users |-> NoView]
  /\ notes = [u \in Users |-> "none"]
  /\ side = NoSide
  /\ lobby = NoLobby
  /\ hist = NoHist

\* ---------------------------------------------------------------------------
\* Clock.  One tick is MOVE_TIME_LIMIT; a request or a job execution does not
\* span a tick.
\* ---------------------------------------------------------------------------
Tick ==
  /\ now < MaxTicks * TickMs
  /\ Busy = {}
  /\ now' = now + TickMs
  /\ UNCHANGED << lobby, side, game, users, prepJob, timeoutJob, presence, conn, mw, run,
                  view, notes, hist >>

\* ---------------------------------------------------------------------------
\* Event fan-out: a game-update carrying a position, delivered to the room of
\* one player.  atStatus is the stored status at the moment of the emit.
\* ---------------------------------------------------------------------------
Delivery(kind, fen, status) ==
  [kind |-> kind, fen |-> fen, atStatus |-> status]

\* ---------------------------------------------------------------------------
\* matchWorker (matchmaker/index.js): u1 is the longest-waiting queued player
\* ---------------------------------------------------------------------------
\* the allowed rating difference after the wait of the anchor
maxEloDiff(queuedAtMs) ==
  LET msWaiting == now - queuedAtMs
  IN 200 + (msWaiting \div (30 * MsPerSec)) * 50

ClosestFirstCandidate(target, candidates) == candidates[1]
\* sorted[0]: the first of the candidates closest in rating to the target
\* (Array.prototype.sort is stable)
Closest(target, candidates) ==
  LET diff(i) == Abs(candidates[i].elo - target.elo)
      first == CHOOSE i \in 1..Len(candidates) :
                 /\ \A j \in 1..Len(candidates) : diff(i) <= diff(j)
                 /\ \A j \in 1..(i - 1) : diff(j) > diff(i)
  IN candidates[first]

NoPlayer == [id |-> NullId, elo |-> NullInt, queuedAt |-> NullInt]

findBestMatchWithinLimit(target, candidates) ==
  IF Len(candidates) = 0 THEN NoPlayer
  ELSE LET sorted0 == Closest(target, candidates)
           diff == Abs(sorted0.elo - target.elo)
           limit == maxEloDiff(target.queuedAt)
       IN IF diff <= limit THEN sorted0 ELSE NoPlayer
\* the closest candidate, inside the allowed difference or not
findBestMatch(target, candidates) ==
  IF Len(candidates) = 0 THEN NoPlayer
  ELSE LET sorted0 == Closest(target, candidates)
           diff == Abs(sorted0.elo - target.elo)
           limit == maxEloDiff(target.queuedAt)
       IN IF diff <= limit THEN sorted0 ELSE sorted0

\* a row of findMany's select { id, elo, queuedAt }
Selected(u) == [id |-> u, elo |-> users[u].elo, queuedAt |-> users[u].queuedAt]

MatchCreate ==
  /\ mw = "idle"
  /\ \A u \in Users : users[u].queueStatus = "queued"
  /\ LET player1 == "u1"
         player2 == findBestMatch(Selected(player1), <<Selected("u2")>>).id
     IN IF player2 = NullId
        THEN /\ game' = game
             /\ mw' = "done"
        ELSE /\ \E isPlayer1White \in BOOLEAN :
                  LET white == IF isPlayer1White THEN player1 ELSE player2
                  IN game' = [NoGame EXCEPT
                       !.whitePlayerId = white,
                       !.fen = combineFens(DraftFen(white), DraftFen(Other(white))),
                       !.status = "prep",
                       !.prepStartedAt = now,
                       !.auxPointsPlayer1 = AUX_POINTS,
                       !.auxPointsPlayer2 = AUX_POINTS,
                       !.player1EloBefore = users[player1].elo,
                       !.player2EloBefore = users[player2].elo]
             /\ mw' = "users"
  /\ UNCHANGED << lobby, side, now, users, prepJob, timeoutJob, presence, conn, run,
                  view, notes, hist >>

MatchUsers ==
  /\ mw = "users"
  /\ users' = [u \in Users |-> [users[u] EXCEPT !.queueStatus = "in_game",
                                                 !.queuedAt = NullInt]]
  /\ mw' = "schedule"
  /\ UNCHANGED << lobby, side, now, game, prepJob, timeoutJob, presence, conn, run,
                  view, notes, hist >>

MatchSchedulePrep ==
  /\ mw = "schedule"
  /\ prepJob' = [pending |-> TRUE, scheduledAt |-> NullInt, dueAt |-> now + PREP_DELAY]
  /\ mw' = "done"
  /\ UNCHANGED << lobby, side, now, game, users, timeoutJob, presence, conn, run,
                  view, notes, hist >>

\* ---------------------------------------------------------------------------
\* Ready route (app/api/game/[id]/ready/route.ts)
\* ---------------------------------------------------------------------------
\* findUnique and the three validations; the caller's flag is not yet set
ReadyRead(u) ==
  /\ run[<<"ready", u>>].pc = "idle"
  /\ CanStart
  /\ game.status = "prep"
  /\ IsParticipant(u)
  /\ ~ (IF IsPlayer1(u) THEN game.readyPlayer1 ELSE game.readyPlayer2)
  /\ run' = [run EXCEPT ![<<"ready", u>>] = [pc |-> "mark"]]
  /\ UNCHANGED << lobby, side, now, game, users, prepJob, timeoutJob, presence, conn, mw,
                  view, notes, hist >>

\* update { readyPlayerN: true } returning the row; when the other flag is not
\* set, the masked ready-state is emitted to each player and the handler ends
ReadyMark(u) ==
  /\ run[<<"ready", u>>].pc = "mark"
  /\ LET updatedGame == IF IsPlayer1(u)
                        THEN [game EXCEPT !.readyPlayer1 = TRUE]
                        ELSE [game EXCEPT !.readyPlayer2 = TRUE]
         bothReady == updatedGame.readyPlayer1 /\ updatedGame.readyPlayer2
         originalFen == buildCombinedDraftFen(Draft1Fen, Draft2Fen)
     IN /\ game' = updatedGame
        /\ IF bothReady
           THEN /\ run' = [run EXCEPT ![<<"ready", u>>] =
                             [pc |-> "start", activeFen |-> updatedGame.fen]]
                /\ view' = view
           ELSE /\ run' = [run EXCEPT ![<<"ready", u>>] = Idle]
                /\ view' = [v \in Users |->
                             Delivery("ready",
                                      maskOpponentAuxPlacements(
                                        updatedGame.fen, originalFen,
                                        IF v = u THEN IsWhite(u) ELSE ~IsWhite(u)),
                                      updatedGame.status)]
  /\ UNCHANGED << lobby, side, now, users, prepJob, timeoutJob, presence, conn, mw,
                  notes, hist >>

\* ReadyStartRow without the reset of the time banks and of the move clock
ReadyStartRowStatusOnly(g, activeFen, t) ==
  [g EXCEPT !.status = "active", !.fen = activeFen, !.moveNumber = 0]

\* the session row as the both-ready branch writes it (no status condition)
ReadyStartRow(g, activeFen, t) ==
  [g EXCEPT !.status = "active", !.fen = activeFen, !.lastMoveAt = t,
            !.moveNumber = 0, !.player1Timebank = START_TIMEBANK,
            !.player2Timebank = START_TIMEBANK]

\* both flags set: update { status: "active", ... } where { id }, then the
\* unmasked broadcast to the game room
ReadyStart(u) ==
  /\ run[<<"ready", u>>].pc = "start"
  /\ game' = ReadyStartRow(game, run[<<"ready", u>>].activeFen, now)
  /\ view' = [v \in Users |->
               Delivery("started", run[<<"ready", u>>].activeFen, "active")]
  /\ hist' = [hist EXCEPT !.liveApplied = @ + 1]
  /\ run' = [run EXCEPT ![<<"ready", u>>] = Idle]
  /\ UNCHANGED << lobby, side, now, users, prepJob, timeoutJob, presence, conn, mw, notes >>

\* ---------------------------------------------------------------------------
\* Place route (app/api/game/[id]/place/route.ts)
\* ---------------------------------------------------------------------------
\* the requests of the model: a pawn or a rook, on the a-file
PlacePieces == {"P", "R"}
PlaceSquares == [file : {0}, rank : {1, 2, 7, 8}]

\* the validations of the route, on the row it has read
PlaceValid(u, piece, square) ==
  LET isWhite == IsWhite(u)
      auxPoints == IF IsPlayer1(u) THEN game.auxPointsPlayer1 ELSE game.auxPointsPlayer2
      ownRanks == IF isWhite THEN {1, 2} ELSE {7, 8}
      pieceChar == IF isWhite THEN ToUpper(piece) ELSE ToLower(piece)
  IN /\ game.status = "prep"
     /\ IsParticipant(u)
     /\ PIECE_VALUES[piece] <= auxPoints
     /\ square.rank \in ownRanks
     /\ (piece = "P" => square.rank = (IF isWhite THEN 2 ELSE 7))
     /\ getPieceAt(game.fen, square) = "1"
     /\ ~ hasIllegalBattery(placePieceOnFen(game.fen, pieceChar, square), isWhite)

PlaceRead(u) ==
  /\ run[<<"place", u>>].pc = "idle"
  /\ CanStart
  /\ \E piece \in PlacePieces, square \in PlaceSquares :
       /\ PlaceValid(u, piece, square)
       /\ LET pieceChar == IF IsWhite(u) THEN ToUpper(piece) ELSE ToLower(piece)
              auxPoints == IF IsPlayer1(u) THEN game.auxPointsPlayer1
                           ELSE game.auxPointsPlayer2
          IN run' = [run EXCEPT ![<<"place", u>>] =
                       [pc |-> "persist",
                        newFen |-> placePieceOnFen(game.fen, pieceChar, square),
                        newAux |-> auxPoints - PIECE_VALUES[piece],
                        pieceChar |-> pieceChar, square |-> square]]
  /\ UNCHANGED << lobby, side, now, game, users, prepJob, timeoutJob, presence, conn, mw,
                  view, notes, hist >>

\* update { fen: newFen, auxPointsPlayerN } where { id }, the two masked
\* broadcasts and the success response
PlacePersist(u) ==
  /\ run[<<"place", u>>].pc = "persist"
  /\ LET h == run[<<"place", u>>]
         originalFen == buildCombinedDraftFen(Draft1Fen, Draft2Fen)
     IN /\ game' = IF IsPlayer1(u)
                   THEN [game EXCEPT !.fen = h.newFen, !.auxPointsPlayer1 = h.newAux]
                   ELSE [game EXCEPT !.fen = h.newFen, !.auxPointsPlayer2 = h.newAux]
        /\ view' = [v \in Users |->
                     Delivery("place",
                              maskOpponentAuxPlacements(
                                h.newFen, originalFen,
                                IF v = u THEN IsWhite(u) ELSE ~IsWhite(u)),
                              game.status)]
        /\ hist' = [hist EXCEPT !.placed = @ \cup {<<h.pieceChar, h.square>>}]
  /\ run' = [run EXCEPT ![<<"place", u>>] = Idle]
  /\ UNCHANGED << lobby, side, now, users, prepJob, timeoutJob, presence, conn, mw, notes >>

\* ---------------------------------------------------------------------------
\* Delayed jobs (BullMQ): a job is taken by a worker once its delay has passed
\* ---------------------------------------------------------------------------
Due(job) == job.pending /\ job.dueAt <= now

\* scheduleTimeout (matchmaker/index.js): add with jobId timeout-<id>
scheduleTimeout(player1Timebank, player2Timebank, lastMoveAt, fenTurn) ==
  LET activeTimebank == IF fenTurn = "w" THEN player1Timebank ELSE player2Timebank
      delay == MOVE_TIME_LIMIT + Max(0, activeTimebank)
  IN [pending |-> TRUE, scheduledAt |-> lastMoveAt, dueAt |-> now + delay]

\* ---------------------------------------------------------------------------
\* prepWorker (matchmaker/index.js)
\* ---------------------------------------------------------------------------
\* the job is taken; findUnique; skip unless the status is prep
PrepRead ==
  /\ run[PrepW].pc = "idle"
  /\ CanStart
  /\ Due(prepJob)
  /\ prepJob' = NoJob
  /\ run' = [run EXCEPT ![PrepW] =
               IF game.status # "prep" THEN Idle
               ELSE [pc |-> "guard", activeFen |-> game.fen]]
  /\ UNCHANGED << lobby, side, now, game, users, timeoutJob, presence, conn, mw,
                  view, notes, hist >>

\* the session row as the guarded update writes it
PrepStartRow(g, activeFen, t) ==
  IF g.status = "prep"
  THEN [g EXCEPT !.status = "active", !.fen = activeFen, !.lastMoveAt = t,
                 !.moveNumber = 0, !.player1Timebank = START_TIMEBANK,
                 !.player2Timebank = START_TIMEBANK]
  ELSE g

\* updateMany where { id, status: 'prep' }; on count 1 the publish
PrepGuard ==
  /\ run[PrepW].pc = "guard"
  /\ game' = PrepStartRow(game, run[PrepW].activeFen, now)
  /\ IF game.status = "prep"
     THEN /\ run' = [run EXCEPT ![PrepW] = [pc |-> "schedule", lastMoveAt |-> now]]
          /\ view' = [v \in Users |->
                       Delivery("started", run[PrepW].activeFen, "active")]
          /\ hist' = [hist EXCEPT !.liveApplied = @ + 1]
     ELSE /\ run' = [run EXCEPT ![PrepW] = Idle]
          /\ UNCHANGED << lobby, view, hist >>
  /\ UNCHANGED << lobby, side, now, users, prepJob, timeoutJob, presence, conn, mw, notes >>

\* scheduleTimeout(gameId, 60000, 60000, now)
PrepSchedule ==
  /\ run[PrepW].pc = "schedule"
  /\ timeoutJob' = scheduleTimeout(START_TIMEBANK, START_TIMEBANK,
                                   run[PrepW].lastMoveAt, "w")
  /\ run' = [run EXCEPT ![PrepW] = Idle]
  /\ UNCHANGED << lobby, side, now, game, users, prepJob, presence, conn, mw,
                  view, notes, hist >>

\* ---------------------------------------------------------------------------
\* updateGameResult (app/lib/elo-update.ts), called by the move route, the
\* resign route and forfeitGame.  A caller enters at pc "ugr_guard" with the
\* arguments in its locals (winnerId, endReason, player1Games, player2Games)
\* and continues at its retOk / retNull label.
\* ---------------------------------------------------------------------------
Callers == ({"move", "resign", "forfeit"} \X Users) \cup {<<"move", Tab>>}

\* updateMany where { id, status: "active" } data { status: "finished" }
GuardRow(g) == IF g.status = "active" THEN [g EXCEPT !.status = "finished"] ELSE g

\* what a caller answers once updateGameResult has returned (result: a value
\* or null): the resign route answers 409 on null; the move route answers 400
\* on a move past the deadline and success on a game-ending move, whatever
\* the result; forfeitGame and the timeout job just return
ReplyOf(kind, endReason, result) ==
  CASE kind = "resign" -> IF result THEN "success" ELSE "Game already finished"
    [] kind = "move" /\ endReason = "timeout" -> "Your time has expired"
    [] kind = "move" /\ endReason # "timeout" -> "success"
    [] OTHER -> "return"

\* the guard of updateGameResult; on count 0 it returns null, and a caller that
\* does nothing more on null answers at once (hist.lostReplies keeps the
\* answers given after a null result)
UgrGuard(p) ==
  /\ run[p].pc = "ugr_guard"
  /\ game' = GuardRow(game)
  /\ IF game.status = "active"
     THEN /\ run' = [run EXCEPT ![p].pc = "ugr_game"]
          /\ hist' = [hist EXCEPT !.finalizeWins = @ + 1, !.lastFinalizer = p[1]]
     ELSE IF run[p].retNull = "idle"
     THEN /\ run' = [run EXCEPT ![p] = Idle]
          /\ hist' = [hist EXCEPT !.lostReplies = @ \cup
                        {<<p[1], run[p].endReason,
                           ReplyOf(p[1], run[p].endReason, FALSE)>>}]
     ELSE /\ run' = [run EXCEPT ![p].pc = run[p].retNull, ![p].result = FALSE]
          /\ hist' = hist
  /\ UNCHANGED << lobby, side, now, users, prepJob, timeoutJob, presence, conn, mw,
                  view, notes >>

\* the rating changes of the two slots (elo-update.ts:31-52)
EloChanges(winnerId, p1Before, p2Before, p1Games, p2Games) ==
  IF winnerId = NullId
  THEN LET r == calculateEloChange(p1Before, p2Before, p1Games, TRUE)
       IN [p1 |-> r.winnerChange, p2 |-> r.loserChange]
  ELSE IF winnerId = game.player1Id
       THEN LET r == calculateEloChange(p1Before, p2Before, p1Games, FALSE)
            IN [p1 |-> r.winnerChange, p2 |-> r.loserChange]
       ELSE LET r == calculateEloChange(p2Before, p1Before, p2Games, FALSE)
            IN [p1 |-> r.loserChange, p2 |-> r.winnerChange]

OrDefault(elo) == IF elo = NullInt THEN DEFAULT_ELO ELSE elo

\* update { winnerId, player1EloAfter, player2EloAfter, eloChange, endReason };
\* winnerId: winnerId ?? undefined leaves the column as it is on a draw
TerminalRow(g, winnerId, endReason, ch) ==
  [g EXCEPT !.winnerId = IF winnerId = NullId THEN @ ELSE winnerId,
            !.player1EloAfter = OrDefault(g.player1EloBefore) + ch.p1,
            !.player2EloAfter = OrDefault(g.player2EloBefore) + ch.p2,
            !.eloChange = Abs(ch.p1),
            !.endReason = endReason]

UgrGame(p) ==
  /\ run[p].pc = "ugr_game"
  /\ LET h == run[p]
         ch == EloChanges(h.winnerId, OrDefault(game.player1EloBefore),
                          OrDefault(game.player2EloBefore),
                          h.player1Games, h.player2Games)
     IN /\ game' = TerminalRow(game, h.winnerId, h.endReason, ch)
        /\ run' = [run EXCEPT ![p].pc = "ugr_user1", ![p].ch = ch]
  /\ hist' = [hist EXCEPT !.fieldWrites = @ + 1]
  /\ UNCHANGED << lobby, side, now, users, prepJob, timeoutJob, presence, conn, mw,
                  view, notes >>

\* user.update of one slot: elo, gamesPlayed and one of wins/losses/draws
UserRow(row, uid, newElo, winnerId) ==
  [row EXCEPT !.elo = newElo,
              !.gamesPlayed = @ + 1,
              !.wins = IF winnerId # NullId /\ winnerId = uid THEN @ + 1 ELSE @,
              !.losses = IF winnerId # NullId /\ winnerId # uid THEN @ + 1 ELSE @,
              !.draws = IF winnerId = NullId THEN @ + 1 ELSE @]

UgrUser1(p) ==
  /\ run[p].pc = "ugr_user1"
  /\ LET h == run[p]
         uid == game.player1Id
     IN users' = [users EXCEPT ![uid] =
                    UserRow(@, uid, OrDefault(game.player1EloBefore) + h.ch.p1,
                            h.winnerId)]
  /\ run' = [run EXCEPT ![p].pc = "ugr_user2"]
  /\ UNCHANGED << lobby, side, now, game, prepJob, timeoutJob, presence, conn, mw,
                  view, notes, hist >>

UgrUser2(p) ==
  /\ run[p].pc = "ugr_user2"
  /\ LET h == run[p]
         uid == game.player2Id
     IN users' = [users EXCEPT ![uid] =
                    UserRow(@, uid, OrDefault(game.player2EloBefore) + h.ch.p2,
                            h.winnerId)]
  /\ run' = [run EXCEPT ![p].pc = run[p].retOk, ![p].result = TRUE]
  /\ UNCHANGED << lobby, side, now, game, prepJob, timeoutJob, presence, conn, mw,
                  view, notes, hist >>

\* the game-update { status: "finished", winnerId, endReason, ... } a
\* finalizer emits to the game room, added to the log of those sent; result
\* tells whether its status guard had matched
Announce(by, winnerId, endReason, result) ==
  [hist EXCEPT !.outcomes = @ \cup
     {[by |-> by, winnerId |-> winnerId, endReason |-> endReason,
       result |-> result]}]

\* locals of a caller that enters updateGameResult
Finalizing(winnerId, endReason, retOk, retNull) ==
  [pc |-> "ugr_guard", winnerId |-> winnerId, endReason |-> endReason,
   player1Games |-> users[game.player1Id].gamesPlayed,
   player2Games |-> users[game.player2Id].gamesPlayed,
   ch |-> [p1 |-> 0, p2 |-> 0], result |-> FALSE,
   retOk |-> retOk, retNull |-> retNull]


\* ---------------------------------------------------------------------------
\* Resign route (app/api/game/[id]/resign/route.ts)
\* ---------------------------------------------------------------------------
ResignRead(u) ==
  /\ run[<<"resign", u>>].pc = "idle"
  /\ CanStart
  /\ game.status = "active"
  /\ IsParticipant(u)
  /\ run' = [run EXCEPT ![<<"resign", u>>] =
               Finalizing(IF IsPlayer1(u) THEN game.player2Id ELSE game.player1Id,
                          "resignation", "after", "idle")]
  /\ UNCHANGED << lobby, side, now, game, users, prepJob, timeoutJob, presence, conn, mw,
                  view, notes, hist >>

\* cancelTimeoutJob and the broadcast of the result
ResignAfter(u) ==
  /\ run[<<"resign", u>>].pc = "after"
  /\ timeoutJob' = NoJob
  /\ hist' = Announce("resign", run[<<"resign", u>>].winnerId, "resignation", TRUE)
  /\ run' = [run EXCEPT ![<<"resign", u>>] = Idle]
  /\ UNCHANGED << lobby, side, now, game, users, prepJob, presence, conn, mw,
                  view, notes >>

\* ---------------------------------------------------------------------------
\* Move route (app/api/game/[id]/move/route.ts).  chess.js decides legality
\* and the end of the game; the model takes its verdict as an input and keeps
\* the piece placement, flipping the side to move.
\* ---------------------------------------------------------------------------
Flip(turn) == IF turn = "w" THEN "b" ELSE "w"
MoveEndings == {"none", "checkmate", "draw"}

\* scheduleTimeoutJob (app/lib/queues.ts): remove the pending job, then add
scheduleTimeoutJob(player1Timebank, player2Timebank, lastMoveAt, fenTurn) ==
  LET activeTimebank == IF fenTurn = "w" THEN player1Timebank ELSE player2Timebank
      delay == MOVE_TIME_LIMIT + Max(0, activeTimebank)
  IN [pending |-> TRUE, scheduledAt |-> lastMoveAt, dueAt |-> now + delay]

BankAfterWholeMove(bank, elapsedMs) ==
  IF elapsedMs > MOVE_TIME_LIMIT THEN bank - elapsedMs ELSE bank
\* the mover's time bank after the overage of this move (route.ts:95-105)
BankAfter(bank, elapsedMs) ==
  IF elapsedMs > MOVE_TIME_LIMIT THEN bank - (elapsedMs - MOVE_TIME_LIMIT) ELSE bank

MoveChecksNoTurn(u) ==
  IF game.status # "active" THEN "Game is not active"
  ELSE IF ~IsParticipant(u) THEN "You are not a participant in this game"
  ELSE "ok"
\* the checks before the time accounting (route.ts:71-93): the error of the
\* first one that fails, or "ok"
MoveChecks(u) ==
  LET turn == game.fen.turn
      isMyTurn == (turn = "w" /\ IsWhite(u)) \/ (turn = "b" /\ ~IsWhite(u))
  IN IF game.status # "active" THEN "Game is not active"
     ELSE IF ~IsParticipant(u) THEN "You are not a participant in this game"
     ELSE IF ~isMyTurn THEN "It is not your turn"
     ELSE "ok"

\* the request is answered with an error of validation: one of the checks
\* fails, or the mover's time has not run out and chess.js throws on the move
MoveReject(u) ==
  /\ run[<<"move", u>>].pc = "idle"
  /\ CanStart
  /\ game.status # "none"
  /\ \E legal \in BOOLEAN :
       LET lastMoveTime == IF game.lastMoveAt # NullInt THEN game.lastMoveAt ELSE now
           elapsedMs == now - lastMoveTime
           currentTimebank ==
             BankAfter(IF IsPlayer1(u) THEN game.player1Timebank
                       ELSE game.player2Timebank, elapsedMs)
           expired == elapsedMs > MOVE_TIME_LIMIT /\ currentTimebank <= 0
           error == IF MoveChecks(u) # "ok" THEN MoveChecks(u)
                    ELSE IF ~expired /\ ~legal THEN "Illegal move"
                    ELSE "ok"
       IN /\ error # "ok"
          /\ hist' = [hist EXCEPT !.rejected = <<"move", u, error>>]
  /\ UNCHANGED << lobby, side, now, game, users, prepJob, timeoutJob, presence, conn, mw,
                  run, view, notes >>

\* a move request s of user Owner(s): findUnique, the checks, the time
\* accounting, the move and its verdict, the values to persist
MoveRead(s) ==
  /\ run[<<"move", s>>].pc = "idle"
  /\ CanStart
  /\ MoveChecks(Owner(s)) = "ok"
  /\ LET turn == game.fen.turn
         isPlayer1 == IsPlayer1(Owner(s))
         lastMoveTime == IF game.lastMoveAt # NullInt THEN game.lastMoveAt ELSE now
         elapsedMs == now - lastMoveTime
         currentTimebank ==
           BankAfter(IF isPlayer1 THEN game.player1Timebank ELSE game.player2Timebank,
                     elapsedMs)
     IN /\ IF elapsedMs > MOVE_TIME_LIMIT /\ currentTimebank <= 0
           THEN run' = [run EXCEPT ![<<"move", s>>] =
                          Finalizing(IF isPlayer1 THEN game.player2Id
                                     ELSE game.player1Id,
                                     "timeout", "expired", "idle")]
           ELSE /\ game.moveNumber < hist.movesBefore + MaxMoves
                /\ \E ending \in MoveEndings :
                     LET newMoveNumber == game.moveNumber + 1
                         bonus == IF newMoveNumber % TIMEBANK_BONUS_INTERVAL = 0
                                  THEN TIMEBANK_BONUS_AMOUNT ELSE 0
                         fin == Finalizing(IF ending = "checkmate" THEN Owner(s) ELSE NullId,
                                           ending, "broadcast", "broadcast")
                     IN run' = [run EXCEPT ![<<"move", s>>] =
                          [fin EXCEPT !.pc = "persist"] @@
                          [newFen |-> [game.fen EXCEPT !.turn = Flip(turn)],
                           newMoveNumber |-> newMoveNumber,
                           newStatus |-> IF ending = "none" THEN "active"
                                         ELSE "finished",
                           at |-> now,
                           player1TimebankUpdate |->
                             (IF isPlayer1 THEN currentTimebank
                              ELSE game.player1Timebank) + bonus,
                           player2TimebankUpdate |->
                             (IF isPlayer1 THEN game.player2Timebank
                              ELSE currentTimebank) + bonus]]
  /\ UNCHANGED << lobby, side, now, game, users, prepJob, timeoutJob, presence, conn, mw,
                  view, notes, hist >>

\* the timed-out branch after a successful updateGameResult: cancelTimeoutJob
\* and the broadcast
MoveExpired(u) ==
  /\ run[<<"move", u>>].pc = "expired"
  /\ timeoutJob' = NoJob
  /\ hist' = Announce("move", run[<<"move", u>>].winnerId, "timeout", TRUE)
  /\ run' = [run EXCEPT ![<<"move", u>>] = Idle]
  /\ UNCHANGED << lobby, side, now, game, users, prepJob, presence, conn, mw,
                  view, notes >>

\* the session row as the move is persisted (no status condition)
MoveRow(g, h, uid) ==
  [g EXCEPT !.fen = h.newFen, !.lastMoveAt = h.at,
            !.moveNumber = h.newMoveNumber,
            !.player1Timebank = h.player1TimebankUpdate,
            !.player2Timebank = h.player2TimebankUpdate]

MovePersist(u) ==
  /\ run[<<"move", u>>].pc = "persist"
  /\ game' = MoveRow(game, run[<<"move", u>>], u)
  /\ IF run[<<"move", u>>].newStatus = "finished"
     THEN /\ run' = [run EXCEPT ![<<"move", u>>].pc = "ugr_guard"]
          /\ view' = view
     ELSE /\ run' = [run EXCEPT ![<<"move", u>>].pc = "schedule"]
          /\ view' = [v \in Users |->
                       Delivery("move", run[<<"move", u>>].newFen, game.status)]
  /\ UNCHANGED << lobby, side, now, users, prepJob, timeoutJob, presence, conn, mw,
                  notes, hist >>

\* after updateGameResult on a game-ending move: the broadcast of the final
\* position and cancelTimeoutJob
MoveBroadcast(u) ==
  /\ run[<<"move", u>>].pc = "broadcast"
  /\ view' = [v \in Users |->
               Delivery("finished", run[<<"move", u>>].newFen, game.status)]
  /\ timeoutJob' = NoJob
  /\ LET h == run[<<"move", u>>]
         sent == Announce("move", h.winnerId, h.endReason, h.result)
     IN hist' = IF h.result THEN sent
                ELSE [sent EXCEPT !.lostReplies = @ \cup
                        {<<"move", h.endReason,
                           ReplyOf("move", h.endReason, FALSE)>>}]
  /\ run' = [run EXCEPT ![<<"move", u>>] = Idle]
  /\ UNCHANGED << lobby, side, now, game, users, prepJob, presence, conn, mw, notes >>

\* an accepted move that did not end the game: scheduleTimeoutJob for the
\* next mover
MoveSchedule(u) ==
  /\ run[<<"move", u>>].pc = "schedule"
  /\ LET h == run[<<"move", u>>]
     IN timeoutJob' = scheduleTimeoutJob(h.player1TimebankUpdate,
                                         h.player2TimebankUpdate,
                                         h.at, h.newFen.turn)
  /\ run' = [run EXCEPT ![<<"move", u>>] = Idle]
  /\ UNCHANGED << lobby, side, now, game, users, prepJob, presence, conn, mw,
                  view, notes, hist >>

\* ---------------------------------------------------------------------------
\* timeoutWorker (matchmaker/index.js)
\* ---------------------------------------------------------------------------
\* Date.now() - new Date(null).getTime(): the time since the epoch
EpochNow == 1000000000
\* the worker's clock may lag the clock the delay was counted on
WorkerLag == {0, TickMs}

\* TimeoutRead without the comparison of lastMoveAt with scheduledAt
TimeoutReadNoFingerprint ==
  /\ run[TimeoutW].pc = "idle"
  /\ CanStart
  /\ Due(timeoutJob)
  /\ timeoutJob' = NoJob
  /\ \E lag \in WorkerLag :
       LET scheduledAt == timeoutJob.scheduledAt
           workerNow == now - lag
           elapsed == IF game.lastMoveAt = NullInt THEN EpochNow
                      ELSE workerNow - game.lastMoveAt
           turn == game.fen.turn
           isP1Turn == turn = "w"
           timebank == IF isP1Turn THEN game.player1Timebank
                       ELSE game.player2Timebank
           remaining == timebank - Max(0, elapsed - MOVE_TIME_LIMIT)
       IN /\ workerNow >= 0
          /\ IF game.status # "active"
             THEN /\ run' = run
                  /\ hist' = [hist EXCEPT !.skipped = @ \cup {"not active"}]
             ELSE IF remaining > 0
             THEN /\ run' = [run EXCEPT ![TimeoutW] =
                       [pc |-> "reschedule", scheduledAt |-> scheduledAt,
                        elapsed |-> elapsed, remaining |-> remaining]]
                  /\ hist' = hist
             ELSE /\ run' = [run EXCEPT ![TimeoutW] =
                       [pc |-> "guard", turn |-> turn, elapsed |-> elapsed,
                        scheduledAt |-> scheduledAt,
                        winnerId |-> IF isP1Turn THEN game.player2Id
                                     ELSE game.player1Id,
                        p1Elo |-> OrDefault(game.player1EloBefore),
                        p2Elo |-> OrDefault(game.player2EloBefore),
                        player1Games |-> users[game.player1Id].gamesPlayed,
                        player2Games |-> users[game.player2Id].gamesPlayed,
                        left |-> {1, 2}]]
                  /\ hist' = hist
  /\ UNCHANGED << lobby, side, now, game, users, prepJob, presence, conn, mw, view, notes >>

\* the job is taken; findUnique; the two staleness checks, each of which logs
\* "skipping" and returns (hist.skipped keeps the log lines); the elapsed-time
\* check, which re-adds the job; else the locals of the timeout
TimeoutRead ==
  /\ run[TimeoutW].pc = "idle"
  /\ CanStart
  /\ Due(timeoutJob)
  /\ timeoutJob' = NoJob
  /\ \E lag \in WorkerLag :
       LET scheduledAt == timeoutJob.scheduledAt
           workerNow == now - lag
           elapsed == IF game.lastMoveAt = NullInt THEN EpochNow
                      ELSE workerNow - game.lastMoveAt
           turn == game.fen.turn
           isP1Turn == turn = "w"
           timebank == IF isP1Turn THEN game.player1Timebank
                       ELSE game.player2Timebank
           remaining == timebank - Max(0, elapsed - MOVE_TIME_LIMIT)
       IN /\ workerNow >= 0
          /\ IF game.status # "active"
             THEN /\ run' = run
                  /\ hist' = [hist EXCEPT !.skipped = @ \cup {"not active"}]
             ELSE IF game.lastMoveAt # NullInt /\ game.lastMoveAt # scheduledAt
             THEN /\ run' = run
                  /\ hist' = [hist EXCEPT !.skipped = @ \cup {"move was made"}]
             ELSE IF remaining > 0
             THEN /\ run' = [run EXCEPT ![TimeoutW] =
                       [pc |-> "reschedule", scheduledAt |-> scheduledAt,
                        elapsed |-> elapsed, remaining |-> remaining]]
                  /\ hist' = hist
             ELSE /\ run' = [run EXCEPT ![TimeoutW] =
                       [pc |-> "guard", turn |-> turn, elapsed |-> elapsed,
                        scheduledAt |-> scheduledAt,
                        winnerId |-> IF isP1Turn THEN game.player2Id
                                     ELSE game.player1Id,
                        p1Elo |-> OrDefault(game.player1EloBefore),
                        p2Elo |-> OrDefault(game.player2EloBefore),
                        player1Games |-> users[game.player1Id].gamesPlayed,
                        player2Games |-> users[game.player2Id].gamesPlayed,
                        left |-> {1, 2}]]
                  /\ hist' = hist
  /\ UNCHANGED << lobby, side, now, game, users, prepJob, presence, conn, mw, view, notes >>

\* timeoutQueue.add('check-timeout', { gameId, scheduledAt }, { delay: remaining })
TimeoutReschedule ==
  /\ run[TimeoutW].pc = "reschedule"
  /\ timeoutJob' = [pending |-> TRUE,
                    scheduledAt |-> run[TimeoutW].scheduledAt,
                    dueAt |-> now + run[TimeoutW].remaining]
  /\ run' = [run EXCEPT ![TimeoutW] = Idle]
  /\ UNCHANGED << lobby, side, now, game, users, prepJob, presence, conn, mw,
                  view, notes, hist >>

\* updateMany where { id, status: 'active' } data { status: 'finished' }
TimeoutGuard ==
  /\ run[TimeoutW].pc = "guard"
  /\ game' = GuardRow(game)
  /\ IF game.status = "active"
     THEN /\ run' = [run EXCEPT ![TimeoutW].pc = "game"]
          /\ hist' = [hist EXCEPT !.finalizeWins = @ + 1,
                                  !.lastFinalizer = "timeoutW"]
     ELSE /\ run' = [run EXCEPT ![TimeoutW] = Idle]
          /\ hist' = [hist EXCEPT !.lostReplies = @ \cup
                        {<<"timeoutW", "timeout",
                           ReplyOf("timeoutW", "timeout", FALSE)>>}]
  /\ UNCHANGED << lobby, side, now, users, prepJob, timeoutJob, presence, conn, mw,
                  view, notes >>

\* the rating changes of the worker (index.js:341-355)
TimeoutChanges(h) ==
  IF h.winnerId = game.player1Id
  THEN LET r == calculateEloChange(h.p1Elo, h.p2Elo, h.player1Games, FALSE)
       IN [p1 |-> r.winnerChange, p2 |-> r.loserChange]
  ELSE LET r == calculateEloChange(h.p2Elo, h.p1Elo, h.player2Games, FALSE)
       IN [p1 |-> r.loserChange, p2 |-> r.winnerChange]

\* update { winnerId, endReason: 'timeout', player1EloAfter, ... }
TimeoutGame ==
  /\ run[TimeoutW].pc = "game"
  /\ LET h == run[TimeoutW]
         ch == TimeoutChanges(h)
     IN game' = [game EXCEPT !.winnerId = h.winnerId, !.endReason = "timeout",
                             !.player1EloAfter = h.p1Elo + ch.p1,
                             !.player2EloAfter = h.p2Elo + ch.p2,
                             !.eloChange = Abs(ch.p1)]
  /\ run' = [run EXCEPT ![TimeoutW].pc = "users"]
  /\ hist' = [hist EXCEPT !.fieldWrites = @ + 1]
  /\ UNCHANGED << lobby, side, now, users, prepJob, timeoutJob, presence, conn, mw,
                  view, notes >>

\* Promise.all of the two user.update calls, in either order, then the publish
TimeoutUser ==
  /\ run[TimeoutW].pc = "users"
  /\ \E slot \in run[TimeoutW].left :
       LET h == run[TimeoutW]
           ch == TimeoutChanges(h)
           uid == IF slot = 1 THEN game.player1Id ELSE game.player2Id
           newElo == IF slot = 1 THEN h.p1Elo + ch.p1 ELSE h.p2Elo + ch.p2
       IN /\ users' = [users EXCEPT ![uid] = UserRow(@, uid, newElo, h.winnerId)]
          /\ run' = [run EXCEPT ![TimeoutW] =
                       IF h.left = {slot} THEN Idle
                       ELSE [h EXCEPT !.left = h.left \ {slot}]]
          /\ hist' = IF h.left = {slot}
                     THEN Announce("timeoutW", h.winnerId, "timeout", TRUE)
                     ELSE hist
  /\ UNCHANGED << lobby, side, now, game, prepJob, timeoutJob, presence, conn, mw,
                  view, notes >>

\* ---------------------------------------------------------------------------
\* main() of the matchmaker (matchmaker/index.js): recovery of the timeout
\* jobs of the active games after a restart
\* ---------------------------------------------------------------------------
\* findMany where { status: 'active' }; games without lastMoveAt are skipped
BootFind ==
  /\ run[Boot].pc = "idle"
  /\ CanStart
  /\ game.status = "active"
  /\ game.lastMoveAt # NullInt
  /\ run' = [run EXCEPT ![Boot] =
               [pc |-> "getJob", fen |-> game.fen, lastMoveAt |-> game.lastMoveAt,
                player1Timebank |-> game.player1Timebank,
                player2Timebank |-> game.player2Timebank]]
  /\ UNCHANGED << lobby, side, now, game, users, prepJob, timeoutJob, presence, conn, mw,
                  view, notes, hist >>

\* timeoutQueue.getJob: the job exists while it is delayed or being processed
BootGetJob ==
  /\ run[Boot].pc = "getJob"
  /\ LET existing == timeoutJob.pending \/ run[TimeoutW].pc # "idle"
     IN run' = [run EXCEPT ![Boot] =
                  IF existing THEN Idle ELSE [run[Boot] EXCEPT !.pc = "schedule"]]
  /\ UNCHANGED << lobby, side, now, game, users, prepJob, timeoutJob, presence, conn, mw,
                  view, notes, hist >>

\* scheduleTimeout(g.id, g.player1Timebank, g.player2Timebank, g.lastMoveAt, turn)
BootSchedule ==
  /\ run[Boot].pc = "schedule"
  /\ LET g == run[Boot]
     IN timeoutJob' = scheduleTimeout(g.player1Timebank, g.player2Timebank,
                                      g.lastMoveAt, g.fen.turn)
  /\ run' = [run EXCEPT ![Boot] = Idle]
  /\ UNCHANGED << lobby, side, now, game, users, prepJob, presence, conn, mw,
                  view, notes, hist >>

\* recovery of the prep-start jobs of the prep games:
\* findMany where { status: 'prep' }
BootPrepFind ==
  /\ run[Boot].pc = "idle"
  /\ CanStart
  /\ game.status = "prep"
  /\ run' = [run EXCEPT ![Boot] =
               [pc |-> "getPrepJob", prepStartedAt |-> game.prepStartedAt]]
  /\ UNCHANGED << lobby, side, now, game, users, prepJob, timeoutJob, presence, conn, mw,
                  view, notes, hist >>

\* prepQueue.getJob: the job exists while it is delayed or being processed
BootPrepGetJob ==
  /\ run[Boot].pc = "getPrepJob"
  /\ LET existing == prepJob.pending \/ run[PrepW].pc # "idle"
     IN run' = [run EXCEPT ![Boot] =
                  IF existing THEN Idle ELSE [run[Boot] EXCEPT !.pc = "schedulePrep"]]
  /\ UNCHANGED << lobby, side, now, game, users, prepJob, timeoutJob, presence, conn, mw,
                  view, notes, hist >>

\* BootPrepSchedule re-creating the job only when the deadline has passed
BootPrepScheduleOverdueOnly ==
  /\ run[Boot].pc = "schedulePrep"
  /\ LET elapsed == now - run[Boot].prepStartedAt
         remaining == Max(0, PREP_DELAY - elapsed)
     IN prepJob' = IF remaining = 0
                   THEN [pending |-> TRUE, scheduledAt |-> NullInt, dueAt |-> now]
                   ELSE prepJob
  /\ run' = [run EXCEPT ![Boot] = Idle]
  /\ UNCHANGED << lobby, side, now, game, users, timeoutJob, presence, conn, mw,
                  view, notes, hist >>

\* prepQueue.add with delay: Math.max(0, 62000 - elapsed)
BootPrepSchedule ==
  /\ run[Boot].pc = "schedulePrep"
  /\ LET elapsed == now - run[Boot].prepStartedAt
         remaining == Max(0, PREP_DELAY - elapsed)
     IN prepJob' = [pending |-> TRUE, scheduledAt |-> NullInt,
                    dueAt |-> now + remaining]
  /\ run' = [run EXCEPT ![Boot] = Idle]
  /\ UNCHANGED << lobby, side, now, game, users, timeoutJob, presence, conn, mw,
                  view, notes, hist >>

\* the matchmaker process dies, once: the executions of its workers stop where
\* they are, the delayed jobs stay in Redis; main() runs again on the restart
WorkerCrash ==
  /\ ~hist.crashed
  /\ run[Boot].pc = "idle"
  /\ \E p \in {PrepW, TimeoutW} : run[p].pc # "idle"
  /\ run' = [p \in Procs |-> IF p \in {PrepW, TimeoutW} THEN Idle ELSE run[p]]
  /\ hist' = [hist EXCEPT !.crashed = TRUE]
  /\ UNCHANGED << lobby, side, now, game, users, prepJob, timeoutJob, presence, conn, mw,
                  view, notes >>

\* the matchmaker process dies, once, while matchWorker is between game.create
\* and prepQueue.add: the session is stored in prep and no prep-start job exists
MatchCrash ==
  /\ ~hist.crashed
  /\ run[Boot].pc = "idle"
  /\ mw \in {"users", "schedule"}
  /\ mw' = "done"
  /\ run' = [p \in Procs |-> IF p \in {PrepW, TimeoutW} THEN Idle ELSE run[p]]
  /\ hist' = [hist EXCEPT !.crashed = TRUE]
  /\ UNCHANGED << lobby, side, now, game, users, prepJob, timeoutJob, presence, conn,
                  view, notes >>

\* the process starts again after the crash and main() comes to its recovery
\* of the prep games: findMany where { status: 'prep' }
Restart ==
  /\ hist.crashed
  /\ ~hist.restarted
  /\ run[Boot].pc = "idle"
  /\ run' = [run EXCEPT ![Boot] =
               IF game.status = "prep"
               THEN [pc |-> "getPrepJob", prepStartedAt |-> game.prepStartedAt]
               ELSE Idle]
  /\ hist' = [hist EXCEPT !.restarted = TRUE]
  /\ UNCHANGED << lobby, side, now, game, users, prepJob, timeoutJob, presence, conn, mw,
                  view, notes >>

\* ---------------------------------------------------------------------------
\* Presence (server.ts): disconnect and join-game socket handlers, the expiry
\* of the presence key, forfeitGame (app/lib/forfeit.ts)
\* ---------------------------------------------------------------------------
InProgress(status) == status = "active" \/ status = "prep"

\* socket 'disconnect' of connection s: findFirst of the user's game in prep
\* or active
DiscFind(s) ==
  /\ run[<<"disc", s>>].pc = "idle"
  /\ CanStart
  /\ conn[s] = "on"
  /\ conn' = [conn EXCEPT ![s] = "off"]
  /\ run' = [run EXCEPT ![<<"disc", s>>] =
               IF InProgress(game.status) /\ IsParticipant(Owner(s))
               THEN [pc |-> "set"] ELSE Idle]
  /\ UNCHANGED << lobby, side, now, game, users, prepJob, timeoutJob, presence, mw,
                  view, notes, hist >>

\* setDisconnectedPresence (SET key EX DISCONNECT_GRACE_SECS), then the
\* 'opponent-disconnected' emit
DiscSet(s) ==
  /\ run[<<"disc", s>>].pc = "set"
  /\ presence' = [presence EXCEPT ![Owner(s)] =
                    now + DISCONNECT_GRACE_SECS * MsPerSec]
  /\ notes' = [notes EXCEPT ![Other(Owner(s))] = "opponent-disconnected"]
  /\ run' = [run EXCEPT ![<<"disc", s>>] = Idle]
  /\ UNCHANGED << lobby, side, now, game, users, prepJob, timeoutJob, conn, mw,
                  view, hist >>

\* socket 'join-game' of connection s: findUnique, the participant check (a
\* user who is not a participant gets a warning in the log and nothing else),
\* socket.join
JoinFind(s) ==
  /\ run[<<"join", s>>].pc = "idle"
  /\ CanStart
  /\ conn[s] = "off"
  /\ game.status # "none"
  /\ IF ~IsParticipant(Owner(s))
     THEN /\ hist' = [hist EXCEPT !.rejected = <<"join", s, "not participant">>]
          /\ UNCHANGED << conn, run >>
     ELSE /\ conn' = [conn EXCEPT ![s] = "on"]
          /\ run' = [run EXCEPT ![<<"join", s>>] =
                       [pc |-> "clear", status |-> game.status]]
          /\ hist' = hist
  /\ UNCHANGED << lobby, side, now, game, users, prepJob, timeoutJob, presence, mw,
                  view, notes >>

\* clearDisconnectedPresence (DEL key), then the 'opponent-connected' emit
JoinClear(s) ==
  /\ run[<<"join", s>>].pc = "clear"
  /\ presence' = [presence EXCEPT ![Owner(s)] = NullInt]
  /\ notes' = IF InProgress(run[<<"join", s>>].status)
              THEN [notes EXCEPT ![Other(Owner(s))] = "opponent-connected"]
              ELSE notes
  /\ run' = [run EXCEPT ![<<"join", s>>] = [pc |-> "snapshot"]]
  /\ UNCHANGED << lobby, side, now, game, users, prepJob, timeoutJob, conn, mw,
                  view, hist >>

\* the payload of 'game-snapshot' (server.ts:157-222) for the row g read for
\* userId at time t
GameSnapshot(g, userId, t) ==
  LET isWhite == g.whitePlayerId = userId
      rawFen == g.fen
      maskedFen ==
        IF g.status = "prep"
        THEN maskOpponentAuxPlacements(
               rawFen, buildCombinedDraftFen(Draft1Fen, Draft2Fen), isWhite)
        ELSE rawFen
      turn == rawFen.turn
      myTurn == (turn = "w" /\ isWhite) \/ (turn = "b" /\ ~isWhite)
      elapsed == t - g.lastMoveAt
      timeRemainingOnMove ==
        IF g.status = "active" /\ g.lastMoveAt # NullInt /\ myTurn
        THEN Max(0, MOVE_TIME_LIMIT - elapsed)
        ELSE MOVE_TIME_LIMIT
  IN [fen |-> maskedFen, status |-> g.status, prepStartedAt |-> g.prepStartedAt,
      readyPlayer1 |-> g.readyPlayer1, readyPlayer2 |-> g.readyPlayer2,
      auxPointsPlayer1 |-> g.auxPointsPlayer1,
      auxPointsPlayer2 |-> g.auxPointsPlayer2,
      moveNumber |-> g.moveNumber,
      player1Timebank |-> g.player1Timebank,
      player2Timebank |-> g.player2Timebank,
      lastMoveAt |-> g.lastMoveAt,
      timeRemainingOnMove |-> timeRemainingOnMove,
      winnerId |-> g.winnerId, endReason |-> g.endReason,
      player1EloAfter |-> g.player1EloAfter,
      player2EloAfter |-> g.player2EloAfter, eloChange |-> g.eloChange]

\* StatusResponse showing the stored position unmasked
StatusResponseUnmasked(g, userId, t) ==
  [GameSnapshot(g, userId, t) EXCEPT !.fen = g.fen]

\* the body GET /api/game/[id]/status returns (status/route.ts:150-231) for the
\* row g read for userId at time t
StatusResponse(g, userId, t) ==
  LET isWhite == g.whitePlayerId = userId
      isPlayer1 == g.player1Id = userId
      currentFen == g.fen
      fen == IF g.status = "prep"
             THEN maskOpponentAuxPlacements(
                    currentFen, buildCombinedDraftFen(Draft1Fen, Draft2Fen),
                    isWhite)
             ELSE currentFen
      turn == currentFen.turn
      isMyTurn == /\ g.status = "active"
                  /\ (turn = "w" /\ isWhite) \/ (turn = "b" /\ ~isWhite)
      timed == g.status = "active" /\ g.lastMoveAt # NullInt /\ isMyTurn
      elapsed == t - g.lastMoveAt
      myTimebank == IF isPlayer1 THEN g.player1Timebank ELSE g.player2Timebank
      timeRemainingOnMove ==
        IF timed THEN Max(0, MOVE_TIME_LIMIT - elapsed) ELSE MOVE_TIME_LIMIT
      currentPlayerTimebank ==
        IF ~timed THEN NullInt
        ELSE IF elapsed > MOVE_TIME_LIMIT
             THEN Max(0, myTimebank - (elapsed - MOVE_TIME_LIMIT))
             ELSE myTimebank
  IN [fen |-> fen, status |-> g.status, prepStartedAt |-> g.prepStartedAt,
      readyPlayer1 |-> g.readyPlayer1, readyPlayer2 |-> g.readyPlayer2,
      auxPointsPlayer1 |-> g.auxPointsPlayer1,
      auxPointsPlayer2 |-> g.auxPointsPlayer2,
      player1Id |-> g.player1Id, player2Id |-> g.player2Id, isWhite |-> isWhite,
      moveNumber |-> g.moveNumber,
      player1Timebank |-> g.player1Timebank,
      player2Timebank |-> g.player2Timebank,
      lastMoveAt |-> g.lastMoveAt,
      isMyTurn |-> isMyTurn,
      timeRemainingOnMove |-> timeRemainingOnMove,
      currentPlayerTimebank |-> currentPlayerTimebank,
      winnerId |-> g.winnerId, endReason |-> g.endReason,
      player1EloAfter |-> g.player1EloAfter,
      player2EloAfter |-> g.player2EloAfter, eloChange |-> g.eloChange]

\* the snapshot read and the 'game-snapshot' emit to this socket
JoinSnapshot(s) ==
  /\ run[<<"join", s>>].pc = "snapshot"
  /\ LET snapshot == GameSnapshot(game, Owner(s), now)
     IN view' = [view EXCEPT ![Owner(s)] =
                   Delivery("snapshot", snapshot.fen, snapshot.status)]
  /\ run' = [run EXCEPT ![<<"join", s>>] = Idle]
  /\ UNCHANGED << lobby, side, now, game, users, prepJob, timeoutJob, presence, conn, mw,
                  notes, hist >>

\* GET /api/game/[id]/status
StatusFetch(u) ==
  /\ game.status # "none"
  /\ IsParticipant(u)
  /\ LET body == StatusResponse(game, u, now)
     IN /\ view[u] # Delivery("status", body.fen, body.status)
        /\ view' = [view EXCEPT ![u] = Delivery("status", body.fen, body.status)]
  /\ UNCHANGED << lobby, side, now, game, users, prepJob, timeoutJob, presence, conn, mw,
                  run, notes, hist >>

\* the presence key expires; the subscriber calls forfeitGame, whose first
\* step is the findUnique and the status and participant checks
ForfeitRead(u) ==
  /\ run[<<"forfeit", u>>].pc = "idle"
  /\ CanStart
  /\ presence[u] # NullInt
  /\ now >= presence[u]
  /\ presence' = [presence EXCEPT ![u] = NullInt]
  /\ hist' = [hist EXCEPT !.expired = @ \cup {u}]
  /\ LET winnerId == IF IsPlayer1(u) THEN game.player2Id ELSE game.player1Id
         fin == Finalizing(winnerId, "abandoned", "cancel", "idle")
     IN run' = [run EXCEPT ![<<"forfeit", u>>] =
                  IF ~InProgress(game.status) THEN Idle
                  ELSE IF game.status = "prep"
                       THEN [fin EXCEPT !.pc = "promote"]
                       ELSE fin]
  /\ UNCHANGED << lobby, side, now, game, users, prepJob, timeoutJob, conn, mw,
                  view, notes >>

\* updateMany where { id, status: 'prep' } data { status: 'active' };
\* count 0 returns
ForfeitPromote(u) ==
  /\ run[<<"forfeit", u>>].pc = "promote"
  /\ IF game.status = "prep"
     THEN /\ game' = [game EXCEPT !.status = "active"]
          /\ run' = [run EXCEPT ![<<"forfeit", u>>].pc = "ugr_guard"]
     ELSE /\ game' = game
          /\ run' = [run EXCEPT ![<<"forfeit", u>>] = Idle]
  /\ UNCHANGED << lobby, side, now, users, prepJob, timeoutJob, presence, conn, mw,
                  view, notes, hist >>

\* cancelTimeoutJob
ForfeitCancel(u) ==
  /\ run[<<"forfeit", u>>].pc = "cancel"
  /\ timeoutJob' = NoJob
  /\ run' = [run EXCEPT ![<<"forfeit", u>>].pc = "release"]
  /\ UNCHANGED << lobby, side, now, game, users, prepJob, presence, conn, mw,
                  view, notes, hist >>

\* user.updateMany { queueStatus: 'offline' } for both players, then the emit
ForfeitRelease(u) ==
  /\ run[<<"forfeit", u>>].pc = "release"
  /\ users' = [v \in Users |-> [users[v] EXCEPT !.queueStatus = "offline"]]
  /\ hist' = Announce("forfeit", run[<<"forfeit", u>>].winnerId, "abandoned", TRUE)
  /\ run' = [run EXCEPT ![<<"forfeit", u>>] = Idle]
  /\ UNCHANGED << lobby, side, now, game, prepJob, timeoutJob, presence, conn, mw,
                  view, notes >>

\* the join-game and disconnect handlers of the second connection of u1
SecondConnection ==
  \/ JoinFind(Tab) \/ JoinClear(Tab) \/ JoinSnapshot(Tab)
  \/ DiscFind(Tab) \/ DiscSet(Tab)

\* ---------------------------------------------------------------------------
\* A second session of the same two players.  The queue-join route does not
\* look at queueStatus, so a player who is in a session can queue again and
\* matchWorker pairs the two once more; the second session is finalized by a
\* resignation (resign route, updateGameResult).
\* ---------------------------------------------------------------------------

\* POST /api/queue/join: user.update { queueStatus: "queued" }
QueueJoin(u) ==
  /\ game.status # "none"
  /\ mw = "done"
  /\ side.status = "none"
  /\ side.pc = "idle"
  /\ users[u].queueStatus # "queued"
  /\ users' = [users EXCEPT ![u].queueStatus = "queued", ![u].queuedAt = now]
  /\ UNCHANGED << lobby, now, game, prepJob, timeoutJob, presence, conn, mw, run,
                  view, notes, side, hist >>

\* matchWorker: findMany of the queued players, with their elo
SideFind ==
  /\ side.status = "none"
  /\ side.pc = "idle"
  /\ mw = "done"
  /\ \A u \in Users : users[u].queueStatus = "queued"
  /\ findBestMatch(Selected("u1"), <<Selected("u2")>>) # NoPlayer
  /\ side' = [side EXCEPT !.pc = "create",
                          !.elo1 = users["u1"].elo, !.elo2 = users["u2"].elo]
  /\ UNCHANGED << lobby, now, game, users, prepJob, timeoutJob, presence, conn, mw,
                  run, view, notes, hist >>

\* matchWorker: game.create with player1EloBefore: player1.elo,
\* player2EloBefore: player2.elo
SideCreate ==
  /\ side.pc = "create"
  /\ side' = [side EXCEPT !.pc = "users", !.status = "prep",
                          !.player1EloBefore = side.elo1,
                          !.player2EloBefore = side.elo2]
  /\ UNCHANGED << lobby, now, game, users, prepJob, timeoutJob, presence, conn, mw,
                  run, view, notes, hist >>

\* matchWorker: user.updateMany { queueStatus: 'in_game' }
SideUsers ==
  /\ side.pc = "users"
  /\ users' = [u \in Users |-> [users[u] EXCEPT !.queueStatus = "in_game",
                                                 !.queuedAt = NullInt]]
  /\ side' = [side EXCEPT !.pc = "idle"]
  /\ UNCHANGED << lobby, now, game, prepJob, timeoutJob, presence, conn, mw, run,
                  view, notes, hist >>

\* the second session goes live (prepWorker's guarded update)
SideStart ==
  /\ side.pc = "idle"
  /\ side.status = "prep"
  /\ side' = [side EXCEPT !.status = "active"]
  /\ UNCHANGED << lobby, now, game, users, prepJob, timeoutJob, presence, conn, mw,
                  run, view, notes, hist >>

\* resign route on the second session: findUnique, the checks, the arguments
\* of updateGameResult
SideResignRead(u) ==
  /\ side.pc = "idle"
  /\ side.status = "active"
  /\ side' = [side EXCEPT !.pc = "ugr_guard",
                          !.reqWinner = IF side.player1Id = u THEN side.player2Id
                                        ELSE side.player1Id,
                          !.player1Games = users[side.player1Id].gamesPlayed,
                          !.player2Games = users[side.player2Id].gamesPlayed]
  /\ UNCHANGED << lobby, now, game, users, prepJob, timeoutJob, presence, conn, mw,
                  run, view, notes, hist >>

\* updateGameResult on the second session: the guard
SideGuard ==
  /\ side.pc = "ugr_guard"
  /\ side' = [GuardRow(side) EXCEPT
                !.pc = IF side.status = "active" THEN "ugr_game" ELSE "idle"]
  /\ UNCHANGED << lobby, now, game, users, prepJob, timeoutJob, presence, conn, mw,
                  run, view, notes, hist >>

\* updateGameResult on the second session: the terminal fields
SideGame ==
  /\ side.pc = "ugr_game"
  /\ LET ch == EloChanges(side.reqWinner, OrDefault(side.player1EloBefore),
                          OrDefault(side.player2EloBefore),
                          side.player1Games, side.player2Games)
     IN side' = [TerminalRow(side, side.reqWinner, "resignation", ch) EXCEPT
                   !.pc = "ugr_user1", !.ch = ch]
  /\ UNCHANGED << lobby, now, game, users, prepJob, timeoutJob, presence, conn, mw,
                  run, view, notes, hist >>

\* updateGameResult on the second session: the two user updates
SideUser1 ==
  /\ side.pc = "ugr_user1"
  /\ users' = [users EXCEPT ![side.player1Id] =
                 UserRow(@, side.player1Id,
                         OrDefault(side.player1EloBefore) + side.ch.p1,
                         side.reqWinner)]
  /\ side' = [side EXCEPT !.pc = "ugr_user2"]
  /\ UNCHANGED << lobby, now, game, prepJob, timeoutJob, presence, conn, mw, run,
                  view, notes, hist >>

SideUser2 ==
  /\ side.pc = "ugr_user2"
  /\ users' = [users EXCEPT ![side.player2Id] =
                 UserRow(@, side.player2Id,
                         OrDefault(side.player2EloBefore) + side.ch.p2,
                         side.reqWinner)]
  /\ side' = [side EXCEPT !.pc = "idle"]
  /\ UNCHANGED << lobby, now, game, prepJob, timeoutJob, presence, conn, mw, run,
                  view, notes, hist >>

\* ---------------------------------------------------------------------------
\* The queue: the join route and the matchWorker (matchmaker/index.js:124-190),
\* one execution at a time (concurrency: 1).  Each join adds a try-match job of
\* its own (queue-join.ts).  Three players join through the route; a fourth is
\* in the queue only where the matchmaker starts with players left queued.
\* ---------------------------------------------------------------------------
Crowd == {"c1", "c2", "c3", "c4"}
Joiners == {"c1", "c2", "c3"}
LobbyElos == {1200, 1205, 1600}

\* POST /api/queue/join: user.update { queueStatus: "queued", queuedAt: now },
\* then triggerMatchmaking
LobbyJoin(p) ==
  /\ lobby.rows[p].queueStatus = "offline"
  /\ lobby' = [lobby EXCEPT !.rows[p].queueStatus = "queued",
                            !.rows[p].queuedAt = now,
                            !.jobs = @ + 1]
  /\ UNCHANGED << now, game, users, prepJob, timeoutJob, presence, conn, mw, run,
                  view, notes, side, hist >>

LobbyQueued == {p \in Crowd : lobby.rows[p].queueStatus = "queued"}
LobbyRow(p) ==
  [id |-> p, elo |-> lobby.rows[p].elo, queuedAt |-> lobby.rows[p].queuedAt]
\* the results findMany { queueStatus: 'queued' } orderBy { queuedAt: 'asc' }
\* may return: rows of equal queuedAt come in any order
QueuedPlayers ==
  {s \in [1..Cardinality(LobbyQueued) -> {LobbyRow(p) : p \in LobbyQueued}] :
     /\ \A i, j \in DOMAIN s : i # j => s[i] # s[j]
     /\ \A i, j \in DOMAIN s : i < j => s[i].queuedAt <= s[j].queuedAt}

\* matchWorker: findMany, the length check, player1 and findBestMatch
LobbyFind ==
  /\ lobby.pc = "idle"
  /\ lobby.jobs > 0
  /\ \E queuedPlayers \in QueuedPlayers :
       IF Len(queuedPlayers) < 2
       THEN lobby' = [lobby EXCEPT !.jobs = @ - 1, !.runs = @ + 1]
       ELSE LET player1 == queuedPlayers[1]
                player2 == findBestMatch(player1, Tail(queuedPlayers))
            IN IF player2 = NoPlayer
               THEN lobby' = [lobby EXCEPT !.jobs = @ - 1, !.runs = @ + 1]
               ELSE lobby' = [lobby EXCEPT !.jobs = @ - 1, !.runs = @ + 1,
                                           !.pc = "create",
                                           !.player1 = player1,
                                           !.player2 = player2]
  /\ UNCHANGED << now, game, users, prepJob, timeoutJob, presence, conn, mw, run,
                  view, notes, side, hist >>

\* matchWorker: game.create
LobbyCreate ==
  /\ lobby.pc = "create"
  /\ lobby' = [lobby EXCEPT
                 !.pc = "users",
                 !.sessions = Append(@, [player1Id |-> lobby.player1.id,
                                         player2Id |-> lobby.player2.id,
                                         player1EloBefore |-> lobby.player1.elo,
                                         player2EloBefore |-> lobby.player2.elo,
                                         run |-> lobby.runs,
                                         atCreate |->
                                           [p \in {lobby.player1.id,
                                                    lobby.player2.id} |->
                                              lobby.rows[p].queueStatus]])]
  /\ UNCHANGED << now, game, users, prepJob, timeoutJob, presence, conn, mw, run,
                  view, notes, side, hist >>

\* matchWorker: user.updateMany { queueStatus: 'in_game', queuedAt: null }
LobbyUsers ==
  /\ lobby.pc = "users"
  /\ lobby' = [lobby EXCEPT
                 !.pc = "idle",
                 !.rows = [p \in Crowd |->
                             IF p \in {lobby.player1.id, lobby.player2.id}
                             THEN [lobby.rows[p] EXCEPT !.queueStatus = "in_game",
                                                        !.queuedAt = NullInt]
                             ELSE lobby.rows[p]]]
  /\ UNCHANGED << now, game, users, prepJob, timeoutJob, presence, conn, mw, run,
                  view, notes, side, hist >>

\* POST /api/queue/leave: user.update { queueStatus: "offline", queuedAt: null }
LobbyLeave(p) ==
  /\ lobby.leaves < MaxLeaves
  /\ lobby.rows[p].queueStatus # "offline"
  /\ lobby' = [lobby EXCEPT !.rows[p].queueStatus = "offline",
                            !.rows[p].queuedAt = NullInt,
                            !.leaves = @ + 1]
  /\ UNCHANGED << now, game, users, prepJob, timeoutJob, presence, conn, mw, run,
                  view, notes, side, hist >>

LobbyLeaving == \E p \in Crowd : LobbyLeave(p)
LobbyWorker == LobbyFind \/ LobbyCreate \/ LobbyUsers
LobbyJoining == \E p \in Joiners : LobbyJoin(p)

\* main(): user.count { queueStatus: 'queued' }; if (queuedCount >= 2)
\* matchQueue.add('try-match') -- one job, whatever the count
LobbySeed ==
  /\ ~lobby.seeded
  /\ LET queuedCount == Cardinality(LobbyQueued)
     IN lobby' = [lobby EXCEPT !.seeded = TRUE,
                               !.jobs = IF queuedCount >= 2 THEN @ + 1 ELSE @]
  /\ UNCHANGED << now, game, users, prepJob, timeoutJob, presence, conn, mw, run,
                  view, notes, side, hist >>

\* ---------------------------------------------------------------------------
\* Time passing while one request is being served (a request that starts
\* before a deadline and ends after it)
\* ---------------------------------------------------------------------------
TickInFlight ==
  /\ now < MaxTicks * TickMs
  /\ Cardinality(Busy) = 1
  /\ now' = now + TickMs
  /\ UNCHANGED << lobby, side, game, users, prepJob, timeoutJob, presence, conn, mw, run,
                  view, notes, hist >>

\* ---------------------------------------------------------------------------
\* Specifications.  Next is the whole program; the specifications below take
\* the handlers of one phase each.
\* ---------------------------------------------------------------------------
Matching == MatchCreate \/ MatchUsers \/ MatchSchedulePrep
Readying == \E u \in Users : ReadyRead(u) \/ ReadyMark(u) \/ ReadyStart(u)
Placing == \E u \in Users : PlaceRead(u) \/ PlacePersist(u)
PrepJob == PrepRead \/ PrepGuard \/ PrepSchedule
Resolving == \E p \in Callers : UgrGuard(p) \/ UgrGame(p) \/ UgrUser1(p) \/ UgrUser2(p)
Resigning == \E u \in Users : ResignRead(u) \/ ResignAfter(u)
Rejecting == \E u \in Sockets : MoveReject(u)
\* a second move request of u1, submitted while the first may be in flight
SecondRequest ==
  \/ MoveRead(Tab) \/ MoveExpired(Tab) \/ MovePersist(Tab)
  \/ MoveBroadcast(Tab) \/ MoveSchedule(Tab)
Moving ==
  \E u \in Users : \/ MoveRead(u) \/ MoveExpired(u) \/ MovePersist(u)
                   \/ MoveBroadcast(u) \/ MoveSchedule(u)
TimeoutJob ==
  TimeoutRead \/ TimeoutReschedule \/ TimeoutGuard \/ TimeoutGame \/ TimeoutUser
Connecting ==
  \/ \E u \in Users : DiscFind(u) \/ DiscSet(u)
  \/ \E u \in Sockets : JoinFind(u) \/ JoinClear(u) \/ JoinSnapshot(u)
Forfeiting ==
  \E u \in Users : \/ ForfeitRead(u) \/ ForfeitPromote(u)
                   \/ ForfeitCancel(u) \/ ForfeitRelease(u)
Fetching == \E u \in Users : StatusFetch(u)
Booting ==
  \/ BootFind \/ BootGetJob \/ BootSchedule
  \/ BootPrepFind \/ BootPrepGetJob \/ BootPrepSchedule
Requeueing == \E u \in Users : QueueJoin(u)
SecondSession ==
  \/ SideFind \/ SideCreate \/ SideUsers \/ SideStart
  \/ (\E u \in Users : SideResignRead(u))
  \/ SideGuard \/ SideGame \/ SideUser1 \/ SideUser2

Next ==
  \/ Tick \/ TickInFlight
  \/ Matching \/ Readying \/ Placing \/ PrepJob
  \/ Resolving \/ Resigning \/ Moving \/ TimeoutJob
  \/ Connecting \/ Forfeiting \/ Fetching \/ Booting
  \/ Requeueing \/ SecondSession
  \/ LobbyJoining \/ LobbyWorker
  \/ WorkerCrash \/ Rejecting \/ LobbyLeaving \/ SecondConnection
  \/ SecondRequest \/ LobbySeed \/ MatchCrash \/ Restart

Spec == Init /\ [][Next]_vars

\* the setup phase: matching, placements, ready flags, the setup deadline
SetupClock == now < SetupTicks * TickMs /\ Tick
NextPrep == SetupClock \/ Matching \/ Readying \/ Placing \/ PrepJob
SpecPrep == Init /\ [][NextPrep]_vars

\* what the players are shown during setup and as the session goes live
NextView == SetupClock \/ Matching \/ Placing \/ PrepJob \/ Fetching
SpecView == Init /\ [][NextView]_vars

\* setup and resignation: the transition to live racing with a finalization
NextFinalize == SetupClock \/ Matching \/ Readying \/ PrepJob \/ Resigning \/ Resolving
SpecFinalize == Init /\ [][NextFinalize]_vars

\* presence: the disconnects and joins of one player, marker expiry, the
\* forfeit, the setup deadline
Dropper == "u1"
NextPresence ==
  \/ SetupClock \/ Matching \/ PrepJob \/ Resolving
  \/ DiscFind(Dropper) \/ DiscSet(Dropper)
  \/ JoinFind(Dropper) \/ JoinClear(Dropper) \/ JoinSnapshot(Dropper)
  \/ ForfeitRead(Dropper) \/ ForfeitPromote(Dropper)
  \/ ForfeitCancel(Dropper) \/ ForfeitRelease(Dropper)
SpecPresence == Init /\ [][NextPresence]_vars

\* a session the setup-deadline job has just made live, with no placements
LiveGame(white) ==
  PrepStartRow([NoGame EXCEPT
                  !.whitePlayerId = white,
                  !.fen = combineFens(DraftFen(white), DraftFen(Other(white))),
                  !.status = "prep",
                  !.prepStartedAt = 0,
                  !.auxPointsPlayer1 = AUX_POINTS,
                  !.auxPointsPlayer2 = AUX_POINTS,
                  !.player1EloBefore = InitUsers["u1"].elo,
                  !.player2EloBefore = InitUsers["u2"].elo],
               combineFens(DraftFen(white), DraftFen(Other(white))),
               LiveAt)

InitLive ==
  /\ now = LiveAt
  /\ \E white \in Users :
       /\ game = LiveGame(white)
       /\ view = [u \in Users |-> Delivery("started", LiveGame(white).fen, "active")]
  /\ users = [u \in Users |-> [InitUsers[u] EXCEPT !.queueStatus = "in_game",
                                                  !.queuedAt = NullInt]]
  /\ prepJob = NoJob
  /\ timeoutJob = [pending |-> TRUE, scheduledAt |-> LiveAt,
                   dueAt |-> LiveAt + MOVE_TIME_LIMIT + START_TIMEBANK]
  /\ presence = [u \in Users |-> NullInt]
  /\ conn = [u \in Conns |-> "off"]
  /\ mw = "done"
  /\ run = [p \in Procs |-> Idle]
  /\ notes = [u \in Users |-> "none"]
  /\ side = NoSide
  /\ lobby = NoLobby
  /\ hist = [NoHist EXCEPT !.liveApplied = 1]

\* the live phase: moves, resignations, the move deadline
NextLive == Tick \/ TickInFlight \/ Moving \/ Resigning \/ TimeoutJob \/ Resolving
SpecLive == InitLive /\ [][NextLive]_vars

\* the move-deadline checks of a session: the setup deadline makes it live,
\* moves, the deadline job, a restart of the matchmaker
NextSchedule ==
  \/ Tick \/ Matching \/ PrepJob \/ Moving \/ TimeoutJob \/ Resolving \/ Booting
SpecSchedule == Init /\ [][NextSchedule]_vars

\* ratings: two sessions of the same players, each finalized by a resignation
NextRatings ==
  \/ SetupClock \/ Matching \/ PrepJob \/ Resigning \/ Resolving
  \/ Requeueing \/ SecondSession
SpecRatings == Init /\ [][NextRatings]_vars

\* rating changes: a live session of two players with the ratings and the
\* games-played counts of RatedPairs and GamesCounts, ended by a move, a
\* resignation or the move deadline
RatedPairs ==
  {<<1200, 1200>>, <<1200, 1205>>, <<1400, 1200>>, <<1200, 1600>>}
GamesCounts == {<<0, 0>>, <<30, 100>>, <<100, 30>>}
InitElo ==
  /\ now = LiveAt
  /\ \E white \in Users, pair \in RatedPairs :
       /\ game = [LiveGame(white) EXCEPT !.player1EloBefore = pair[1],
                                         !.player2EloBefore = pair[2]]
       /\ view = [u \in Users |-> Delivery("started", LiveGame(white).fen, "active")]
       /\ \E games \in GamesCounts :
            users = [u \in Users |->
                       [elo |-> IF u = "u1" THEN pair[1] ELSE pair[2],
                        gamesPlayed |-> IF u = "u1" THEN games[1] ELSE games[2],
                        wins |-> 0, losses |-> 0, draws |-> 0,
                        queueStatus |-> "in_game", queuedAt |-> NullInt]]
  /\ prepJob = NoJob
  /\ timeoutJob = [pending |-> TRUE, scheduledAt |-> LiveAt,
                   dueAt |-> LiveAt + MOVE_TIME_LIMIT + START_TIMEBANK]
  /\ presence = [u \in Users |-> NullInt]
  /\ conn = [u \in Conns |-> "off"]
  /\ mw = "done"
  /\ run = [p \in Procs |-> Idle]
  /\ notes = [u \in Users |-> "none"]
  /\ side = NoSide
  /\ lobby = NoLobby
  /\ hist = [NoHist EXCEPT !.liveApplied = 1]

EloClock == now < LiveAt + SetupTicks * TickMs /\ Tick
NextElo == EloClock \/ Moving \/ Resigning \/ TimeoutJob \/ Resolving
SpecElo == InitElo /\ [][NextElo]_vars

\* the clock of a single move: a session two accepted moves into the live
\* phase, white to move, the mover's time bank either spent down to a sixth of
\* START_TIMEBANK by the first move or untouched, the deadline job as the
\* second move scheduled it; the clock advances by a sixth of the allowance
ScenarioStep == MOVE_TIME_LIMIT \div 6
ScenarioBanks == {START_TIMEBANK \div 6, START_TIMEBANK}
ScenarioEnd == LiveAt + 2 * MOVE_TIME_LIMIT + START_TIMEBANK + ScenarioStep
BankStart(moves) ==
  /\ \E white \in Users, bank \in ScenarioBanks :
       LET at == LiveAt + MOVE_TIME_LIMIT + START_TIMEBANK - bank
           row == [LiveGame(white) EXCEPT
                     !.moveNumber = moves, !.lastMoveAt = at,
                     !.player1Timebank = IF white = "u1" THEN bank ELSE @,
                     !.player2Timebank = IF white = "u2" THEN bank ELSE @]
       IN /\ now = at
          /\ game = row
          /\ view = [u \in Users |-> Delivery("move", row.fen, "active")]
          /\ timeoutJob = scheduleTimeoutJob(row.player1Timebank,
                                             row.player2Timebank, at, row.fen.turn)
  /\ users = [u \in Users |-> [InitUsers[u] EXCEPT !.queueStatus = "in_game",
                                                  !.queuedAt = NullInt]]
  /\ prepJob = NoJob
  /\ presence = [u \in Users |-> NullInt]
  /\ conn = [u \in Conns |-> "off"]
  /\ mw = "done"
  /\ run = [p \in Procs |-> Idle]
  /\ notes = [u \in Users |-> "none"]
  /\ side = NoSide
  /\ lobby = NoLobby
  /\ hist = [NoHist EXCEPT !.liveApplied = 1, !.movesBefore = moves]
InitBank == BankStart(2)

BankClock ==
  /\ now < ScenarioEnd
  /\ Busy = {}
  /\ now' = now + ScenarioStep
  /\ UNCHANGED << lobby, side, game, users, prepJob, timeoutJob, presence, conn, mw, run,
                  view, notes, hist >>
NextBank == BankClock \/ Moving \/ TimeoutJob \/ Resolving
SpecBank == InitBank /\ [][NextBank]_vars

\* the queue: both players queued, the second one at the same instant as the
\* first or QueueGap later, with ratings close together or far apart; the
\* second join has woken the match worker
QueuedPairs == {<<1200, 1205>>, <<1200, 1600>>, <<1600, 1200>>}
QueueGap == MOVE_TIME_LIMIT \div 6
InitQueue ==
  /\ \E pair \in QueuedPairs, gap \in {0, QueueGap} :
       /\ now = gap
       /\ users = [u \in Users |->
                     [InitUsers[u] EXCEPT
                        !.elo = IF u = "u1" THEN pair[1] ELSE pair[2],
                        !.queuedAt = IF u = "u1" THEN 0 ELSE gap]]
  /\ game = NoGame
  /\ prepJob = NoJob
  /\ timeoutJob = NoJob
  /\ presence = [u \in Users |-> NullInt]
  /\ conn = [u \in Conns |-> "off"]
  /\ mw = "idle"
  /\ run = [p \in Procs |-> Idle]
  /\ view = [u \in Users |-> NoView]
  /\ notes = [u \in Users |-> "none"]
  /\ side = NoSide
  /\ lobby = NoLobby
  /\ hist = NoHist

NextQueue == Tick \/ Matching \/ PrepJob \/ Readying
SpecQueue == InitQueue /\ [][NextQueue]_vars

\* pairing among three players of ratings drawn from LobbyElos, who join the
\* queue at any tick
InitLobby ==
  /\ now = 0
  /\ game = NoGame
  /\ users = InitUsers
  /\ prepJob = NoJob
  /\ timeoutJob = NoJob
  /\ presence = [u \in Users |-> NullInt]
  /\ conn = [u \in Conns |-> "off"]
  /\ mw = "idle"
  /\ run = [p \in Procs |-> Idle]
  /\ view = [u \in Users |-> NoView]
  /\ notes = [u \in Users |-> "none"]
  /\ side = NoSide
  /\ \E elos \in [Joiners -> LobbyElos] :
       lobby = [NoLobby EXCEPT
                  !.rows = [p \in Crowd |->
                              IF p \in Joiners
                              THEN [NoLobby.rows[p] EXCEPT !.elo = elos[p]]
                              ELSE NoLobby.rows[p]]]
  /\ hist = NoHist

NextLobby == SetupClock \/ LobbyJoining \/ LobbyWorker
SpecLobby == InitLobby /\ [][NextLobby]_vars

\* recovery: the session from pairing to its moves, one crash of the
\* matchmaker process, the recovery loop of main()
RecoveryClock == now < LiveAt + 3 * TickMs /\ Tick
NextRecovery ==
  \/ RecoveryClock \/ Matching \/ PrepJob \/ Moving \/ TimeoutJob \/ Resolving
  \/ Booting \/ WorkerCrash
SpecRecovery == Init /\ [][NextRecovery]_vars

\* presence with a join-game signal from a user who is not in the session
NextJoin == NextPresence \/ JoinFind(Stranger)
SpecJoin == Init /\ [][NextJoin]_vars

\* move submissions, valid or not, by the two players and by a user who is
\* not in the session
NextReject == EloClock \/ Moving \/ Rejecting \/ Resolving
SpecReject == InitLive /\ [][NextReject]_vars

\* the queue of three with leave-queue requests next to the match worker
NextLeave == NextLobby \/ LobbyLeaving
InitLeave == InitLobby /\ \A p \in Crowd : lobby.rows[p].elo = DEFAULT_ELO
SpecLeave == InitLeave /\ [][NextLeave]_vars

\* presence of a player with two connections: both join the session, either
\* may disconnect
NextTabs == NextPresence \/ SecondConnection
SpecTabs == Init /\ [][NextTabs]_vars

\* moves of a live session with two requests of the same player in flight
NextTurns == EloClock \/ TickInFlight \/ Moving \/ SecondRequest \/ Resolving
SpecTurns == InitLive /\ [][NextTurns]_vars

\* the clock of the moves around a multiple of TIMEBANK_BONUS_INTERVAL: the
\* session of SpecBank two moves before the bonus
BonusStart == TIMEBANK_BONUS_INTERVAL - MaxMoves
InitBonus == BankStart(BonusStart)
SpecBonus == InitBonus /\ [][NextBank]_vars

\* The matchmaker starts with any of the players left queued and no try-match
\* job pending; main() seeds once, joins add their jobs, and the match worker
\* (a BullMQ worker) runs every job that is waiting.
InitSeed ==
  /\ now = 0
  /\ game = NoGame
  /\ users = InitUsers
  /\ prepJob = NoJob
  /\ timeoutJob = NoJob
  /\ presence = [u \in Users |-> NullInt]
  /\ conn = [u \in Conns |-> "off"]
  /\ mw = "idle"
  /\ run = [p \in Procs |-> Idle]
  /\ view = [u \in Users |-> NoView]
  /\ notes = [u \in Users |-> "none"]
  /\ side = NoSide
  /\ hist = NoHist
  /\ \E left \in SUBSET Crowd :
       lobby = [NoLobby EXCEPT
                  !.seeded = FALSE,
                  !.rows = [p \in Crowd |->
                              IF p \in left
                              THEN [NoLobby.rows[p] EXCEPT !.queueStatus = "queued",
                                                          !.queuedAt = 0]
                              ELSE NoLobby.rows[p]]]
NextSeed == NextLobby \/ LobbySeed
SpecSeed == InitSeed /\ [][NextSeed]_vars
SpecSeedFair == SpecSeed /\ WF_vars(LobbyWorker) /\ WF_vars(LobbySeed)

\* the setup phase with one crash of the matchmaker process and the recovery
\* of main().  An execution of matchWorker does not span a tick of the clock.
\* Fairness: time passes; a request that has started returns;
\* the workers run the jobs that are due (the bound on requests in flight is
\* the model's own, so taking the job is strongly fair); after the crash the
\* process starts again and main() runs, once.  No participant is obliged to send a
\* request.  The place route, which writes the position and a budget only, is
\* left out.
SetupTime == mw \notin {"users", "schedule"} /\ SetupClock
NextSetup ==
  \/ SetupTime \/ Matching \/ Readying \/ PrepJob
  \/ WorkerCrash \/ MatchCrash \/ Restart \/ BootPrepGetJob \/ BootPrepSchedule
SpecSetup == Init /\ [][NextSetup]_vars
SpecSetupFair ==
  /\ SpecSetup
  /\ WF_vars(SetupTime)
  /\ WF_vars(Matching)
  /\ SF_vars(PrepRead) /\ WF_vars(PrepGuard \/ PrepSchedule)
  /\ \A p \in {"ready"} \X Users : []<>(run[p].pc = "idle")
  /\ WF_vars(Restart)
  /\ WF_vars(BootPrepGetJob \/ BootPrepSchedule)

\* what the participants are shown: the setup phase from the pairing on
\* (the opponent placing pieces and marking ready) and, from a session just made
\* live, the live phase to its end (moves within the time bank, resignations),
\* while u1 re-joins the session and either participant fetches the status at
\* any moment
Rejoining == JoinFind(Dropper) \/ JoinClear(Dropper) \/ JoinSnapshot(Dropper)
SyncClock ==
  /\ Tick
  /\ IF game.status \in {"none", "prep"} THEN now < SetupTicks * TickMs
     ELSE now < LiveAt + 2 * TickMs
InitSync == Init \/ InitLive
NextSync ==
  \/ SyncClock \/ Matching
  \/ PlaceRead(Other(Dropper)) \/ PlacePersist(Other(Dropper))
  \/ ReadyRead(Other(Dropper)) \/ ReadyMark(Other(Dropper))
  \/ (\E u \in Users : \/ MoveRead(u) \/ MovePersist(u)
                        \/ MoveBroadcast(u) \/ MoveSchedule(u))
  \/ Resigning \/ Resolving \/ Fetching \/ Rejoining
SpecSync == InitSync /\ [][NextSync]_vars

\* ---------------------------------------------------------------------------
\* Properties
\* ---------------------------------------------------------------------------

\* C1: of the finalize attempts on one session (game-ending move, timeout on
\* move submission, resignation, move-deadline job, forfeit) exactly one wins
\* the conditional live -> terminal update and writes the terminal fields; the
\* others see zero affected rows and write nothing.
C1_ExactlyOneFinalize ==
  /\ hist.finalizeWins <= 1
  /\ hist.fieldWrites <= 1

\* C2: the terminal fields are all-or-nothing: with a non-terminal status the
\* end reason, the post-session ratings and the rating delta are all unset,
\* with the terminal status they are all set.
C2_TerminalFieldsAllOrNothing ==
  IF game.status = "finished"
  THEN /\ game.endReason # NullId
       /\ game.player1EloAfter # NullInt
       /\ game.player2EloAfter # NullInt
       /\ game.eloChange # NullInt
  ELSE /\ game.endReason = NullId
       /\ game.player1EloAfter = NullInt
       /\ game.player2EloAfter = NullInt
       /\ game.eloChange = NullInt

\* C3: the setup -> live transition (status, time banks, move clock) is
\* applied exactly once, by the ready handler or by the setup-deadline job;
\* the other one changes nothing.
C3_LiveTransitionOnce == hist.liveApplied <= 1

\* C4: once a session is live and the handler or job that made it live has
\* returned, a move-deadline check is pending for the first mover.
C4_DeadlineCheckPending ==
  (game.status = "active" /\ Busy = {}) => timeoutJob.pending

\* C5: when the move-deadline job records a timeout, the winner it records is
\* the opponent of the player to move, the player to move being given by the
\* stored color assignment and the side to move of the position the job read.
C5_TimeoutWinnerIsOpponent ==
  run[TimeoutW].pc = "users" =>
    LET toMove == IF run[TimeoutW].turn = "w" THEN game.whitePlayerId
                  ELSE Other(game.whitePlayerId)
    IN game.endReason = "timeout" /\ game.winnerId = Other(toMove)

\* C6: when the presence marker of a player who has not reconnected expires
\* and the forfeit it starts has returned, the session is finalized, once,
\* with reason abandoned and the other participant as winner; also when the
\* session was in setup at expiry and when it went live while the forfeit was
\* running.
C6_ExpiryForfeitsOnce ==
  \A u \in Users :
    (/\ u \in hist.expired
     /\ conn[u] = "off"
     /\ run[<<"join", u>>].pc = "idle"
     /\ \A v \in Users : run[<<"forfeit", v>>].pc = "idle") =>
      /\ game.status = "finished"
      /\ game.endReason = "abandoned"
      /\ game.winnerId \in {Other(v) : v \in hist.expired}
      /\ hist.finalizeWins = 1

\* C7: once a player's disconnect handler and the join handler of the
\* reconnect have both returned, in whichever order they ran, no presence
\* marker of the player remains (so no forfeit follows) and the last presence
\* notification to the opponent is opponent-connected.
C7_ReconnectClearsMarker ==
  \A u \in Users :
    (/\ conn[u] = "on"
     /\ run[<<"disc", u>>].pc = "idle"
     /\ run[<<"join", u>>].pc = "idle") =>
      /\ presence[u] = NullInt
      /\ InProgress(game.status) => notes[Other(u)] = "opponent-connected"

\* C8: the position of a live session contains every placement that was
\* persisted and acknowledged during setup.
C8_LivePositionKeepsPlacements ==
  game.status = "active" =>
    \A pl \in hist.placed : getPieceAt(game.fen, pl[2]) = pl[1]

\* C9: a position delivered while the session is in setup shows the opponent's
\* two ranks as in the original armies and shows every piece the viewer has
\* added, whatever the opponent placed; a position delivered once the session
\* is live shows the added pieces of both sides.
C9_DeliveredPositions ==
  \A u \in Users :
    view[u].kind # "none" =>
      LET original == buildCombinedDraftFen(Draft1Fen, Draft2Fen)
          ownRanks == IF IsWhite(u) THEN {1, 2} ELSE {7, 8}
          opponentRows == IF IsWhite(u) THEN {1, 2} ELSE {7, 8}
      IN IF view[u].atStatus = "prep"
         THEN /\ \A idx \in opponentRows :
                   view[u].fen.rows[idx] = original.rows[idx]
              /\ \A pl \in hist.placed :
                   pl[2].rank \in ownRanks => getPieceAt(view[u].fen, pl[2]) = pl[1]
         ELSE \A pl \in hist.placed : getPieceAt(view[u].fen, pl[2]) = pl[1]

\* C10: a move-deadline check that fires when the session is not live, or
\* when the stored last-move timestamp differs from its scheduledAt, is
\* dropped: no session or player field changes, no job is scheduled, nothing
\* is emitted, and the worker is done.
C10_StaleCheckDropped ==
  [][ (/\ run[TimeoutW].pc = "idle"
       /\ Due(timeoutJob)
       /\ timeoutJob' # timeoutJob
       /\ \A p \in Procs \ {TimeoutW} : run'[p] = run[p]
       /\ \/ game.status # "active"
          \/ game.lastMoveAt # timeoutJob.scheduledAt)
      => (/\ game' = game
          /\ users' = users
          /\ timeoutJob' = NoJob
          /\ prepJob' = prepJob
          /\ view' = view
          /\ notes' = notes
          /\ run'[TimeoutW] = Idle) ]_vars

\* C10 witness: the worker has dropped one check because the session was no
\* longer live and one because a move had been stored after it was scheduled
C10_Witness == hist.skipped = {"not active", "move was made"}

\* C11: the move-deadline job never goes on to finalize while the time elapsed
\* since the last move is less than the per-move allowance plus the stored time
\* bank of the player to move (the player whose stored color is the side to
\* move); in that case it leaves the session as it is and re-adds the check
\* with the same fingerprint and a delay equal to the time remaining until
\* allowance plus bank are used up.
C11_NoEarlyTimeout ==
  [][ (run[TimeoutW].pc = "idle" /\ run'[TimeoutW].pc \in {"guard", "reschedule"})
      => LET mover == IF game.fen.turn = "w" THEN game.whitePlayerId
                      ELSE Other(game.whitePlayerId)
             bank == IF IsPlayer1(mover) THEN game.player1Timebank
                     ELSE game.player2Timebank
             elapsed == run'[TimeoutW].elapsed
         IN elapsed < MOVE_TIME_LIMIT + bank
            => /\ run'[TimeoutW].pc = "reschedule"
               /\ run'[TimeoutW].scheduledAt = timeoutJob.scheduledAt
               /\ run'[TimeoutW].remaining = MOVE_TIME_LIMIT + bank - elapsed
               /\ game' = game ]_vars

\* C12: whenever a move-deadline check is scheduled (by the setup-deadline job
\* as the session goes live, by the move route after an accepted move, by the
\* recovery at the start of the matchmaker), its delay is the per-move
\* allowance plus max(0, time bank of the player to move), the player to move
\* being the one whose stored color is the side to move of the position.
C12_ScheduledDelay ==
  [][ \A p \in {PrepW, Boot} \cup ({"move"} \X Users) :
        (run[p].pc = "schedule" /\ run'[p].pc = "idle")
        => LET h == run[p]
               turn == IF p = PrepW THEN "w" ELSE
                       IF p = Boot THEN h.fen.turn ELSE h.newFen.turn
               p1Bank == IF p = PrepW THEN game.player1Timebank ELSE
                         IF p = Boot THEN h.player1Timebank
                         ELSE h.player1TimebankUpdate
               p2Bank == IF p = PrepW THEN game.player2Timebank ELSE
                         IF p = Boot THEN h.player2Timebank
                         ELSE h.player2TimebankUpdate
               mover == IF turn = "w" THEN game.whitePlayerId
                        ELSE Other(game.whitePlayerId)
               bank == IF IsPlayer1(mover) THEN p1Bank ELSE p2Bank
           IN /\ timeoutJob'.pending
              /\ timeoutJob'.dueAt - now = MOVE_TIME_LIMIT + Max(0, bank) ]_vars

\* C13: a finalize attempt whose conditional status guard affects zero rows
\* writes nothing more to the store (neither the session row nor a player
\* row), and its caller (move route, resign route, move-deadline job,
\* forfeit) answers as it does after a successful finalization, not with an
\* error.
C13_LostGuardIsNoOp ==
  [][ /\ \A p \in Callers \cup {TimeoutW} :
           ( /\ run[p].pc \in {"ugr_guard", "guard"}
             /\ run'[p] # run[p]
             /\ game.status # "active" )
           => (game' = game /\ users' = users)
      /\ \A p \in Callers :
           ( /\ run[p].pc = "broadcast"
             /\ run'[p] # run[p]
             /\ ~ run[p].result )
           => (game' = game /\ users' = users)
      /\ \A r \in hist'.lostReplies : r[3] = ReplyOf(r[1], r[2], TRUE) ]_vars

\* C14: once a finalization has succeeded and its handler or job has returned
\* (the session is terminal, with its end reason written), neither
\* participant's queue status is in_game any more, whatever the end reason.
C14_ReleasedAfterFinalize ==
  (game.status = "finished" /\ game.endReason # NullId /\ Busy = {})
  => \A u \in Users : users[u].queueStatus # "in_game"

\* C15: a placement or a ready signal is accepted (the handler goes past its
\* validations) only when the session it reads is in setup, the actor is a
\* participant and the actor's ready flag is not set; so a participant who
\* has marked ready adds no further pieces and does not mark ready twice.
C15_RejectedWhenReady ==
  [][ \A u \in Users :
        LET ready == IF IsPlayer1(u) THEN game.readyPlayer1 ELSE game.readyPlayer2
            accepted == \/ /\ run[<<"place", u>>].pc = "idle"
                           /\ run'[<<"place", u>>].pc # "idle"
                        \/ /\ run[<<"ready", u>>].pc = "idle"
                           /\ run'[<<"ready", u>>].pc # "idle"
        IN accepted => (game.status = "prep" /\ IsParticipant(u) /\ ~ ready) ]_vars

C17_RatingIsSumOfDeltas ==
  (Busy = {} /\ side.pc = "idle")
  => LET d1(g) == IF g.status = "finished"
                  THEN g.player1EloAfter - g.player1EloBefore ELSE 0
         d2(g) == IF g.status = "finished"
                  THEN g.player2EloAfter - g.player2EloBefore ELSE 0
     IN /\ users["u1"].elo = InitUsers["u1"].elo + d1(game) + d1(side)
        /\ users["u2"].elo = InitUsers["u2"].elo + d2(game) + d2(side)

\* C18: once a finalization has written its terminal fields, the two recorded
\* rating deltas (rating after minus pre-session rating) sum to 0, whatever
\* the pre-session ratings and games-played counts and whoever finalized; on
\* a draw with equal pre-session ratings both deltas are 0.
C18_DeltasSumToZero ==
  game.eloChange # NullInt
  => LET d1 == game.player1EloAfter - game.player1EloBefore
         d2 == game.player2EloAfter - game.player2EloBefore
     IN /\ d1 + d2 = 0
        /\ game.eloChange = Abs(d1)
        /\ (game.winnerId = NullId /\ game.player1EloBefore = game.player2EloBefore)
           => (d1 = 0 /\ d2 = 0)

\* a drawn session of players with different ratings, with non-zero deltas
C18_Witness ==
  /\ game.endReason = "draw"
  /\ game.winnerId = NullId
  /\ game.eloChange # NullInt
  /\ game.eloChange > 0
  /\ game.player1EloAfter - game.player1EloBefore
       = game.player2EloBefore - game.player2EloAfter

\* ---------------------------------------------------------------------------
\* C19
\* ---------------------------------------------------------------------------
\* the mover's stored time bank
BankOf(u) == IF IsPlayer1(u) THEN game.player1Timebank ELSE game.player2Timebank
\* the move route starts on a submission by u, the session active and u to move
Submits(u) == run[<<"move", u>>].pc = "idle" /\ run'[<<"move", u>>].pc # "idle"
\* the submission of u ends the session in timeout with the opponent as winner
TimedOutOnSubmit(u) ==
  /\ run'[<<"move", u>>].pc = "ugr_guard"
  /\ run'[<<"move", u>>].endReason = "timeout"
  /\ run'[<<"move", u>>].winnerId = Other(u)
\* the bank the move route is about to store for u
BankUpdateOf(u) ==
  IF IsPlayer1(u) THEN run'[<<"move", u>>].player1TimebankUpdate
  ELSE run'[<<"move", u>>].player2TimebankUpdate

\* C19 as stated: a move submitted 35 seconds after the previous move by a
\* mover whose time bank is 10 seconds is not applied and ends the session in
\* timeout with the mover's opponent as winner.
C19_TimeoutAt35With10 ==
  [][\A u \in Users :
       (Submits(u) /\ now - game.lastMoveAt = 35000 /\ BankOf(u) = 10000)
         => TimedOutOnSubmit(u)]_vars

\* C19 (amended): a move submitted 35 seconds after the previous move by a
\* mover whose time bank is 10 seconds is not timed out by the submission: the
\* 5 seconds over the per-move allowance are taken from the bank, which is left
\* at 5 seconds (plus the bonus of every TIMEBANK_BONUS_INTERVAL-th move), and
\* the move goes on to validation.  A submission ends the
\* session in timeout with the mover's opponent as winner exactly when the time
\* over the allowance is at least the mover's whole bank (40 seconds or more
\* with a 10-second bank).
C19_BankCoversOverage ==
  [][\A u \in Users :
       Submits(u) =>
         LET elapsedMs == now - game.lastMoveAt
             over == elapsedMs - MOVE_TIME_LIMIT
         IN IF over > 0 /\ over >= BankOf(u)
            THEN TimedOutOnSubmit(u)
            ELSE /\ run'[<<"move", u>>].pc = "persist"
                 /\ run'[<<"move", u>>].newMoveNumber = game.moveNumber + 1
                 /\ BankUpdateOf(u) =
                      BankOf(u) - Max(0, over)
                      + (IF (game.moveNumber + 1) % TIMEBANK_BONUS_INTERVAL = 0
                         THEN TIMEBANK_BONUS_AMOUNT ELSE 0)
                 /\ (elapsedMs = 35000 /\ BankOf(u) = 10000
                       /\ (game.moveNumber + 1) % TIMEBANK_BONUS_INTERVAL # 0)
                      => BankUpdateOf(u) = 5000]_vars

\* a move submitted at 35 seconds with a 10-second bank is about to be stored,
\* and a move submitted at 40 seconds or later with that bank has timed out
C19_Witness ==
  \E u \in Users :
    /\ run[<<"move", u>>].pc = "persist"
    /\ run[<<"move", u>>].at - game.lastMoveAt = 35000
    /\ BankOf(u) = 10000
    /\ run[<<"move", u>>].newMoveNumber = 3
    /\ (IF IsPlayer1(u) THEN run[<<"move", u>>].player1TimebankUpdate
        ELSE run[<<"move", u>>].player2TimebankUpdate) = 5000

\* ---------------------------------------------------------------------------
\* C20
\* ---------------------------------------------------------------------------
\* both players are queued since the same instant, rated 1200 and 1600
QueuedTogetherFarApart ==
  /\ \A u \in Users : users[u].queueStatus = "queued"
  /\ users["u1"].queuedAt = users["u2"].queuedAt
  /\ {users["u1"].elo, users["u2"].elo} = {1200, 1600}
\* an invocation of the match worker that finds both players queued
MatchInvocation == mw = "idle" /\ mw' # "idle"
\* the invocation pairs the two players into a new session
Pairs ==
  /\ mw' = "users"
  /\ game'.status = "prep"
  /\ game'.prepStartedAt = now
  /\ game'.player1EloBefore = users["u1"].elo
  /\ game'.player2EloBefore = users["u2"].elo

\* C20 as stated: two queued players rated 1200 and 1600 who joined the queue
\* at the same instant are not paired by any matchmaker invocation until the
\* anchor has waited long enough for the allowed rating difference (which
\* widens by 50 points per 30 s of wait) to exceed 400.
C20_NotPairedUntilWidened ==
  [][(MatchInvocation /\ QueuedTogetherFarApart /\ Pairs)
       => maxEloDiff(users["u1"].queuedAt) > 400]_vars

\* C20 (amended): two queued players rated 1200 and 1600 who joined the queue
\* at the same instant are paired by the first matchmaker invocation that finds
\* them both queued, however short the anchor's wait: the allowed rating
\* difference (200, widening by 50 points per 30 s of wait) is computed but the
\* closest candidate is returned whether or not it is inside it.
C20_PairedWhateverTheWait ==
  [][MatchInvocation =>
       /\ Pairs
       /\ maxEloDiff(users["u1"].queuedAt)
            = 200 + 50 * ((now - users["u1"].queuedAt) \div 30000)]_vars

\* the two players rated 1200 and 1600 have been paired at the instant they
\* queued, the allowed difference being 200
C20_Witness ==
  /\ mw = "users"
  /\ game.status = "prep"
  /\ QueuedTogetherFarApart
  /\ game.prepStartedAt = users["u1"].queuedAt
  /\ maxEloDiff(users["u1"].queuedAt) = 200
  /\ Abs(game.player1EloBefore - game.player2EloBefore) = 400

\* ---------------------------------------------------------------------------
\* C21
\* ---------------------------------------------------------------------------
\* rating difference of two players of the queue
LobbyDiff(p, q) == Abs(lobby.rows[p].elo - lobby.rows[q].elo)
\* the step on which an execution of the match worker reads the queue
LobbyInvocation == lobby.pc = "idle" /\ lobby'.runs = lobby.runs + 1
\* the players the execution has chosen: the anchor is a longest-waiting queued
\* player, the other is a queued candidate closest in rating to the anchor
ChosenAnchorAndClosest ==
  LET a == lobby'.player1.id
      b == lobby'.player2.id
  IN /\ a \in LobbyQueued /\ b \in LobbyQueued /\ a # b
     /\ \A q \in LobbyQueued : lobby.rows[a].queuedAt <= lobby.rows[q].queuedAt
     /\ \A q \in LobbyQueued \ {a} : LobbyDiff(a, b) <= LobbyDiff(a, q)

\* C21: each matchmaker invocation creates at most one session and never waits
\* for more players; when at least two players are queued, the session it
\* creates pairs the longest-waiting queued player (the anchor) with the queued
\* candidate whose rating difference from the anchor is smallest.
C21_OneSessionAnchorClosest ==
  [][/\ Len(lobby'.sessions) <= Len(lobby.sessions) + 1
     /\ \A i, j \in DOMAIN lobby'.sessions :
          i # j => lobby'.sessions[i].run # lobby'.sessions[j].run
     /\ LobbyInvocation =>
          IF Cardinality(LobbyQueued) < 2
          THEN lobby'.pc = "idle" /\ lobby'.sessions = lobby.sessions
          ELSE lobby'.pc = "create" /\ ChosenAnchorAndClosest
     /\ (lobby.pc = "create" /\ lobby'.pc # "create") =>
          /\ Len(lobby'.sessions) = Len(lobby.sessions) + 1
          /\ lobby'.sessions[Len(lobby'.sessions)].player1Id = lobby.player1.id
          /\ lobby'.sessions[Len(lobby'.sessions)].player2Id = lobby.player2.id
          /\ lobby'.sessions[Len(lobby'.sessions)].run = lobby.runs]_vars

\* a session has been created for the anchor and the closest candidate while a
\* third player, queued before that candidate but farther in rating, stays
\* queued
C21_Witness ==
  /\ lobby.pc = "users"
  /\ Len(lobby.sessions) = 1
  /\ lobby.sessions[1].player1Id = lobby.player1.id
  /\ lobby.sessions[1].player2Id = lobby.player2.id
  /\ \E q \in LobbyQueued \ {lobby.player1.id, lobby.player2.id} :
       /\ lobby.rows[q].queuedAt < lobby.rows[lobby.player2.id].queuedAt
       /\ lobby.rows[lobby.player1.id].queuedAt <= lobby.rows[q].queuedAt
       /\ LobbyDiff(lobby.player1.id, q)
            > LobbyDiff(lobby.player1.id, lobby.player2.id)

\* ---------------------------------------------------------------------------
\* C22
\* ---------------------------------------------------------------------------
\* the recovery loop of start-up finishes with this step
BootCompletes == run[Boot].pc # "idle" /\ run'[Boot].pc = "idle"
\* a move-deadline job is delayed or being processed
HasTimeoutJob == timeoutJob.pending \/ run[TimeoutW].pc # "idle"
\* a setup-deadline job is delayed or being processed
HasPrepJob == prepJob.pending \/ run[PrepW].pc # "idle"

\* C22: after worker start-up completes, every live session has a pending
\* move-deadline job recomputed from its stored state, and every setup session
\* has a pending setup-deadline job whose delay is the remaining setup time
\* (zero if already overdue); sessions that already had a pending job keep it
\* unchanged.
C22_RecoveredJobs ==
  [][BootCompletes =>
       /\ (run[Boot].pc \in {"getJob", "schedule"} /\ game.status = "active") =>
            /\ HasTimeoutJob'
            /\ (run[Boot].pc = "schedule"
                 /\ \A u \in Users : run[<<"move", u>>].pc = "idle")
                 => timeoutJob'.scheduledAt = game.lastMoveAt
       /\ (run[Boot].pc \in {"getPrepJob", "schedulePrep"} /\ game.status = "prep") =>
            /\ HasPrepJob'
            /\ run[Boot].pc = "schedulePrep" =>
                 prepJob'.dueAt
                   = now + Max(0, PREP_DELAY - (now - game.prepStartedAt))
       /\ (timeoutJob.pending /\ run[Boot].pc = "getJob") => timeoutJob' = timeoutJob
       /\ (prepJob.pending /\ run[Boot].pc = "getPrepJob") => prepJob' = prepJob]_vars

\* ---------------------------------------------------------------------------
\* C23
\* ---------------------------------------------------------------------------
\* the join-game signal of s is handled on this step
JoinSignal(s) ==
  /\ run[<<"join", s>>].pc = "idle"
  /\ \/ run'[<<"join", s>>].pc # "idle"
     \/ (hist'.rejected # hist.rejected /\ hist'.rejected = <<"join", s, "not participant">>)

\* C23: a connection is subscribed to a session's event channels only if its
\* authenticated user is one of the session's two participants; a join-session
\* signal from a non-participant has no effect: no channel is joined, no
\* presence marker is deleted, no notification is sent to the participants and
\* no snapshot is returned.
C23_OnlyParticipantsJoin ==
  [][\A s \in Sockets :
       /\ (conn[s] = "off" /\ conn'[s] = "on")
            => (s = game.player1Id \/ s = game.player2Id)
       /\ (JoinSignal(s) /\ s # game.player1Id /\ s # game.player2Id)
            => /\ conn' = conn
               /\ presence' = presence
               /\ notes' = notes
               /\ view' = view
               /\ run' = run]_vars

\* the join-game signal of the stranger has been handled while a participant's
\* presence marker is set: the stranger is not subscribed, the marker is there
C23_Witness ==
  /\ hist.rejected = <<"join", Stranger, "not participant">>
  /\ conn[Stranger] = "off"
  /\ run[<<"join", Stranger>>].pc = "idle"
  /\ \E u \in Users : presence[u] # NullInt /\ conn[u] = "off"

\* ---------------------------------------------------------------------------
\* C24
\* ---------------------------------------------------------------------------
\* a move of u would fail validation: the session is not live, u is not one of
\* its players, or it is not u's turn
InvalidMover(u) ==
  \/ game.status # "active"
  \/ (u # game.player1Id /\ u # game.player2Id)
  \/ ~ ((game.fen.turn = "w") <=> (game.whitePlayerId = u))
\* a move submission is answered with an error of validation on this step
MoveRejected ==
  /\ hist'.rejected # hist.rejected
  /\ hist'.rejected # << >>
  /\ hist'.rejected[1] = "move"

\* C24: a move submission rejected by validation (session not live, actor not
\* a participant, not the actor's turn, illegal move) mutates no session or
\* player state, and neither schedules nor cancels any deadline job.
C24_RejectedMoveChangesNothing ==
  [][/\ MoveRejected =>
          /\ game' = game /\ users' = users
          /\ timeoutJob' = timeoutJob /\ prepJob' = prepJob
          /\ run' = run /\ view' = view
     /\ \A u \in Sockets :
          (run[<<"move", u>>].pc = "idle" /\ InvalidMover(u))
            => run'[<<"move", u>>].pc = "idle"]_vars

\* each of the four rejections has happened in a live or finished session
\* whose deadline job, if the session is live, is still pending
C24_Witness ==
  /\ hist.rejected # << >>
  /\ hist.rejected[1] = "move"
  /\ hist.rejected[3] = "It is not your turn"
  /\ game.status = "active"
  /\ game.moveNumber > 0
  /\ timeoutJob.pending

\* ---------------------------------------------------------------------------
\* C25
\* ---------------------------------------------------------------------------
\* no handler and no worker is between its first and its last step
AllHandlersCompleted == \A p \in Procs : run[p].pc = "idle"
\* a live session in which a move has been accepted since the start of the run
LiveAfterAcceptedMove ==
  /\ game.status = "active"
  /\ game.moveNumber > hist.movesBefore

\* C25: after accepted moves in a live session, overlapping handlers of
\* the two participants included, once every handler has completed one
\* move-deadline job is pending and its scheduledAt is the stored lastMoveAt.
C25_OneJobWithStoredFingerprint ==
  (LiveAfterAcceptedMove /\ AllHandlersCompleted)
    => /\ timeoutJob.pending
       /\ timeoutJob.scheduledAt = game.lastMoveAt

\* ---------------------------------------------------------------------------
\* C26
\* ---------------------------------------------------------------------------
\* the place of a status on the lifecycle
LifecycleRank(status) ==
  CASE status = "prep" -> 1
    [] status = "active" -> 2
    [] status = "finished" -> 3
    [] OTHER -> 0

\* C26: the status of a session only moves forward along setup, live,
\* terminal: no step takes a terminal session back to live or setup, or a live
\* session back to setup.
C26_StatusOnlyForward ==
  [][LifecycleRank(game'.status) >= LifecycleRank(game.status)]_vars

\* ---------------------------------------------------------------------------
\* C27
\* ---------------------------------------------------------------------------
\* the status guard of the move-deadline job succeeds on this step
TimeoutGuardSucceeds ==
  /\ run[TimeoutW].pc = "guard"
  /\ game.status = "active"
  /\ game'.status = "finished"
  /\ run'[TimeoutW].pc = "game"

\* C27: the move-deadline job finalizes a session as timeout only if, when
\* its status guard succeeds, the stored lastMoveAt still equals the
\* fingerprint of the job: never after a move for that deadline was persisted.
C27_TimeoutOnlyOnFingerprint ==
  [][TimeoutGuardSucceeds => game.lastMoveAt = run[TimeoutW].scheduledAt]_vars

\* ---------------------------------------------------------------------------
\* C28
\* ---------------------------------------------------------------------------
\* the fields of play of a session row: position, move counter, last-move
\* timestamp, time banks, ready flags, setup budgets
PlayFields(g) ==
  << g.fen, g.moveNumber, g.lastMoveAt, g.player1Timebank, g.player2Timebank,
     g.readyPlayer1, g.readyPlayer2, g.auxPointsPlayer1, g.auxPointsPlayer2 >>

\* C28: once a session is terminal its position, move counter, last-move
\* timestamp, time banks, ready flags and setup budgets never change, also
\* when a request that read the session earlier completes afterwards.
C28_TerminalFieldsFrozen ==
  [][game.status = "finished" => PlayFields(game') = PlayFields(game)]_vars

\* ---------------------------------------------------------------------------
\* C29
\* ---------------------------------------------------------------------------
\* C29: every terminal-outcome notification sent to the game room
\* carries the winner and end reason persisted in the session row, and a
\* finalizer whose status guard matched nothing sends none.
C29_OutcomeNotificationsPersisted ==
  \A o \in hist.outcomes :
    /\ o.result
    /\ o.winnerId = game.winnerId
    /\ o.endReason = game.endReason

\* ---------------------------------------------------------------------------
\* C30
\* ---------------------------------------------------------------------------
\* the sessions in setup or live of which u is a participant
OpenSessionsOf(u) ==
  (IF InProgress(game.status) /\ IsParticipant(u) THEN {"first"} ELSE {})
    \cup (IF InProgress(side.status) /\ u \in {side.player1Id, side.player2Id}
          THEN {"second"} ELSE {})

\* C30: a player is a participant of at most one session in setup or
\* live at any time: the queue-join route and the match worker never put a
\* player who is in such a session into another one.
C30_AtMostOneOpenSession ==
  \A u \in Users : Cardinality(OpenSessionsOf(u)) <= 1

\* ---------------------------------------------------------------------------
\* C31
\* ---------------------------------------------------------------------------
\* the match worker creates a session on this step
LobbyCreates == Len(lobby'.sessions) = Len(lobby.sessions) + 1
\* the players of the session created last whose rows said "offline" when it
\* was created: their leave-queue request had completed
LeftBeforeCreate ==
  IF lobby.sessions = << >> THEN {}
  ELSE LET s == lobby.sessions[Len(lobby.sessions)]
       IN {p \in DOMAIN s.atCreate : s.atCreate[p] = "offline"}

\* C31: a player whose leave-queue request completed before the match
\* worker creates a session is not placed into it and is not marked in_game,
\* also when the worker had read the queue before the request.
C31_LeaverNotPaired ==
  [][/\ LobbyCreates =>
          \A p \in {lobby.player1.id, lobby.player2.id} :
            lobby.rows[p].queueStatus # "offline"
     /\ (lobby.pc = "users" /\ lobby'.pc = "idle") =>
          \A p \in LeftBeforeCreate : lobby'.rows[p].queueStatus # "in_game"]_vars

\* ---------------------------------------------------------------------------
\* C32
\* ---------------------------------------------------------------------------
\* the squares of u's two ranks on which the stored position differs from the
\* position the session was created with
AddedSquares(u) ==
  LET ownRanks == IF IsWhite(u) THEN {1, 2} ELSE {7, 8}
      created == combineFens(Draft1Fen, Draft2Fen)
  IN {sq \in [file : 0..(Files - 1), rank : ownRanks] :
        getPieceAt(game.fen, sq) # getPieceAt(created, sq)}
RECURSIVE CostOf(_)
CostOf(squares) ==
  IF squares = {} THEN 0
  ELSE LET sq == CHOOSE s \in squares : TRUE
       IN PIECE_VALUES[ToUpper(getPieceAt(game.fen, sq))] + CostOf(squares \ {sq})
RemainingBudget(u) ==
  IF IsPlayer1(u) THEN game.auxPointsPlayer1 ELSE game.auxPointsPlayer2

\* C32: during setup the budget a participant has spent (6 minus what
\* remains) equals the total cost of that participant's added pieces in the
\* stored position, and the remaining budget is never negative.
C32_BudgetMatchesPosition ==
  game.status = "prep" =>
    \A u \in Users :
      /\ RemainingBudget(u) >= 0
      /\ 6 - RemainingBudget(u) = CostOf(AddedSquares(u))

\* ---------------------------------------------------------------------------
\* C33
\* ---------------------------------------------------------------------------
\* the presence key of u expires on this step and the subscriber calls
\* forfeitGame
GraceExpires(u) == u \notin hist.expired /\ u \in hist'.expired
\* connection s is joined to the session and its join handler has returned
Joined(s) == conn[s] = "on" /\ run[<<"join", s>>].pc = "idle"

\* C33: a participant with two connections, one of which has
\* disconnected while the other remains joined to the session, is not
\* forfeited: the grace period of a participant does not run out while a
\* connection of theirs is joined.
C33_NoForfeitWhileJoined ==
  [][(GraceExpires("u1") /\ conn["u1"] = "off") => ~Joined(Tab)]_vars

\* ---------------------------------------------------------------------------
\* C34
\* ---------------------------------------------------------------------------
\* the move of request s is accepted (persisted) on this step
Accepts(s) ==
  /\ run[<<"move", s>>].pc = "persist"
  /\ run'[<<"move", s>>].pc # "persist"
\* the colour stored for user u
ColourOf(u) == IF game.whitePlayerId = u THEN "w" ELSE "b"

\* C34: a move is accepted only from the participant whose stored
\* colour is the side to move of the stored position, so that accepted moves
\* alternate, and each accepted move adds one to the move counter.
C34_MovesAlternateAndCount ==
  [][\A s \in Users \cup {Tab} :
       Accepts(s) => /\ game.fen.turn = ColourOf(Owner(s))
                     /\ game'.moveNumber = game.moveNumber + 1]_vars

\* ---------------------------------------------------------------------------
\* C35
\* ---------------------------------------------------------------------------
\* the stored time bank of u in row g
StoredBank(g, u) ==
  IF g.player1Id = u THEN g.player1Timebank ELSE g.player2Timebank

\* C35: an accepted move takes max(0, elapsed - 30 s) from the mover's
\* time bank and nothing from the opponent's, both banks get the 60 s bonus
\* exactly when the new move number is a multiple of 20, and the stored banks
\* of a live session stay positive.
C35_BankAccounting ==
  [][/\ \A s \in Users \cup {Tab} :
          Accepts(s) =>
            LET u == Owner(s)
                elapsedMs == run[<<"move", s>>].at - game.lastMoveAt
                bonus == IF game'.moveNumber % 20 = 0 THEN 60000 ELSE 0
            IN /\ StoredBank(game', u) =
                    StoredBank(game, u) - Max(0, elapsedMs - 30000) + bonus
               /\ StoredBank(game', Other(u)) = StoredBank(game, Other(u)) + bonus
     /\ game'.status = "active" =>
          \A u \in Users : StoredBank(game', u) > 0]_vars

\* ---------------------------------------------------------------------------
\* C36
\* ---------------------------------------------------------------------------
\* the sessions of user u that have been finalized: their terminal fields
\* have been written
FinalizedSessionsOf(u) ==
  (IF game.endReason # NullId /\ IsParticipant(u) THEN {"first"} ELSE {})
    \cup (IF side.endReason # NullId /\ u \in {side.player1Id, side.player2Id}
          THEN {"second"} ELSE {})

\* C36: each player's games-played counter equals wins + losses +
\* draws, never exceeds the number of finalized sessions of the player, and
\* equals it once every finalization has returned.
C36_GamesPlayedCountsSessions ==
  \A u \in Users :
    /\ users[u].gamesPlayed = users[u].wins + users[u].losses + users[u].draws
    /\ users[u].gamesPlayed <= Cardinality(FinalizedSessionsOf(u))
    /\ AllHandlersCompleted /\ side.pc = "idle"
         => users[u].gamesPlayed = Cardinality(FinalizedSessionsOf(u))

\* ---------------------------------------------------------------------------
\* C37
\* ---------------------------------------------------------------------------
\* a longest-waiting queued player
LongestWaiting ==
  {p \in LobbyQueued :
     \A q \in LobbyQueued : lobby.rows[p].queuedAt <= lobby.rows[q].queuedAt}
\* a session created since n sessions existed includes player p
CreatedWith(n, p) ==
  \E i \in DOMAIN lobby.sessions :
    i > n /\ p \in {lobby.sessions[i].player1Id, lobby.sessions[i].player2Id}

\* C37: whenever at least two players are queued (no player leaves the queue
\* in this specification, so they stay queued until paired), the match worker
\* eventually creates a session that includes a player who was then waiting
\* longest.
C37_QueuedPairEventuallyMatched ==
  \A n \in 0..Cardinality(Crowd) : \A lw \in SUBSET Crowd :
    (Cardinality(LobbyQueued) >= 2 /\ Len(lobby.sessions) = n
       /\ lw = LongestWaiting /\ lobby.pc = "idle")
      ~> (\E p \in lw : CreatedWith(n, p))


\* ---------------------------------------------------------------------------
\* C38
\* ---------------------------------------------------------------------------
\* the last instant of the modelled clock in the setup specifications
SetupHorizon == SetupTicks * TickMs
\* a session in setup whose deadline lies within the modelled time
InSetupDueWithinHorizon ==
  game.status = "prep" /\ game.prepStartedAt + PREP_DELAY <= SetupHorizon

\* C38: every session in setup eventually leaves setup, whether or not the
\* participants mark themselves ready and whether or not the matchmaker process
\* died before the setup-deadline job was added or while it was running.
C38_SetupEventuallyEnds == InSetupDueWithinHorizon ~> game.status # "prep"

\* the process died before matchWorker added the setup-deadline job (the users
\* are not yet marked in_game); the job re-created by main() has made the
\* session live although not both participants were ready
C38_Witness ==
  /\ hist.crashed /\ hist.restarted
  /\ \A u \in Users : users[u].queueStatus = "queued"
  /\ game.status = "active"
  /\ hist.liveApplied = 1
  /\ ~(game.readyPlayer1 /\ game.readyPlayer2)
  /\ game.readyPlayer1 \/ game.readyPlayer2

\* ---------------------------------------------------------------------------
\* C39
\* ---------------------------------------------------------------------------
\* the fields of the snapshot; the status response has each of them
SnapshotFields == DOMAIN GameSnapshot(game, "u1", now)

\* C39: for every stored session and either participant, every field of the
\* join-session snapshot (masked position, status, ready flags, setup budgets,
\* move counter, time banks, move timer, terminal fields) has the value the
\* status fetch returns for the same participant at the same moment.
C39_SnapshotEqualsStatusFetch ==
  game.status # "none" =>
    \A u \in Users :
      /\ SnapshotFields \subseteq DOMAIN StatusResponse(game, u, now)
      /\ \A f \in SnapshotFields :
           GameSnapshot(game, u, now)[f] = StatusResponse(game, u, now)[f]

\* in setup, after the opponent has placed a piece: u1 has just received the
\* snapshot, in which the position is masked, and u2 has fetched the status
C39_Witness ==
  /\ game.status = "prep"
  /\ view["u1"].kind = "snapshot"
  /\ view["u2"].kind = "status"
  /\ view["u1"].fen = GameSnapshot(game, "u1", now).fen
  /\ view["u1"].fen # game.fen
  /\ view["u2"].fen = StatusResponse(game, "u2", now).fen

====
